---------------------------- MODULE Spec2Model ----------------------------
(***************************************************************************)
(* Model of the Slate grammar-suggestion demo (src/src/App.tsx, the latest *)
(* revision starting at line 582; src/unnamed/part_000 holds the earlier   *)
(* revisions).  Text is a sequence of one-character strings, offsets are   *)
(* 0-based as in the source, paths are <<block, segment>> with 0-based     *)
(* indices as Slate numbers them.                                          *)
(***************************************************************************)
EXTENDS Integers, Sequences, FiniteSets, TLC

VARIABLES
    doc,             \* editor.children: blocks, each a sequence of text nodes
    selection,       \* editor.selection: NoSelection or [anchor, focus]
    suggestions,     \* React state `suggestions` (immediate list)
    povSuggestions,  \* React state `povSuggestions` (gated list)
    loading,         \* React state `loading`
    passes,          \* analysis passes in flight, in the order they started
    debounceRef,     \* number of debounce timers that are pending
    ruleState,       \* React state `customRules`
    adding,          \* the run of handleAddRule that is suspended, if any
    lastOutput,      \* log: what the pass that resolved last returned
    computedAt,      \* log: value of `edits` when the visible lists were set
    lastEdit,        \* log: the last run of applySuggestion / applyAllPOVSuggestions
    edits,           \* number of document edits so far (bounded)
    started,         \* number of analysis passes started so far (bounded)
    call,            \* function-level specification: the call being made
    ret              \* function-level specification: what the call returned

vars == <<doc, selection, suggestions, povSuggestions, loading, passes,
          debounceRef, ruleState, adding, lastOutput, computedAt, lastEdit, edits, started, call, ret>>

appVars == <<doc, selection, suggestions, povSuggestions, loading, passes,
             debounceRef, ruleState, adding, lastOutput, computedAt, lastEdit, edits, started>>

-----------------------------------------------------------------------------
(* Characters and JavaScript string primitives *)

LowerLetters == <<"a", "d", "e", "f", "h", "i", "l", "m", "n", "o", "r", "s", "t", "w", "x", "y">>

UpperLetters == <<"A", "D", "E", "F", "H", "I", "L", "M", "N", "O", "R", "S", "T", "W", "X", "Y">>

Digits == {"1", "2"}

Range(f) == {f[i] : i \in DOMAIN f}

IsLower(c) == c \in Range(LowerLetters)

IsUpper(c) == c \in Range(UpperLetters)

IndexIn(s, c) == CHOOSE i \in DOMAIN s : s[i] = c

UpperChar(c) == IF IsLower(c) THEN UpperLetters[IndexIn(LowerLetters, c)] ELSE c

LowerChar(c) == IF IsUpper(c) THEN LowerLetters[IndexIn(UpperLetters, c)] ELSE c

toUpperCase(str) == [i \in 1..Len(str) |-> UpperChar(str[i])]

toLowerCase(str) == [i \in 1..Len(str) |-> LowerChar(str[i])]

Min(a, b) == IF a < b THEN a ELSE b

Max(a, b) == IF a > b THEN a ELSE b

\* String.prototype.slice(a, b) for 0 <= a, 0 <= b: both ends are clipped.
slice(str, a, b) == SubSeq(str, a + 1, Min(b, Len(str)))

\* The value a call has when it throws a TypeError.
TypeError == <<"TypeError">>

-----------------------------------------------------------------------------
(* Case preservation *)

matchCase(desired, original) ==
    IF toUpperCase(original) = original THEN toUpperCase(desired)
    ELSE IF UpperChar(original[1]) = original[1]
         THEN IF desired = <<>> THEN TypeError
              ELSE <<UpperChar(desired[1])>> \o slice(desired, 1, Len(desired))
         ELSE desired

matchTokenCase(replacement, originalToken) ==
    IF originalToken = <<>> THEN TypeError
    ELSE IF originalToken[1] = UpperChar(originalToken[1])
         THEN IF replacement = <<>> THEN TypeError
              ELSE <<UpperChar(replacement[1])>> \o slice(replacement, 1, Len(replacement))
         ELSE replacement

-----------------------------------------------------------------------------
(* Pronoun tables *)

he == <<"h", "e">>

him == <<"h", "i", "m">>

his == <<"h", "i", "s">>

she == <<"s", "h", "e">>

her == <<"h", "e", "r">>

hers == <<"h", "e", "r", "s">>

they == <<"t", "h", "e", "y">>

them == <<"t", "h", "e", "m">>

their == <<"t", "h", "e", "i", "r">>

theirs == <<"t", "h", "e", "i", "r", "s">>

POV == {"he", "she", "they"}

\* Object.keys(PRONOUNS), in insertion order.
POVKeys == <<"he", "she", "they">>

\* PRONOUNS[pov].map: its keys (every key maps to itself, so a lookup is
\* truthy exactly for a key).
PRONOUNS ==
    [p \in POV |->
        CASE p = "he" -> {he, him, his}
          [] p = "she" -> {she, her, hers}
          [] p = "they" -> {they, them, their, theirs}]

\* POV_MAP with the "she" row sending him to his, a literal of another row.
POV_MAP_HimToHis ==
    [p \in POV |->
        CASE p = "he" ->
                 (she :> he) @@ (her :> him) @@ (hers :> his) @@ (they :> he)
                 @@ (them :> him) @@ (their :> his) @@ (theirs :> his)
          [] p = "she" ->
                 (he :> she) @@ (him :> his) @@ (his :> her) @@ (they :> she)
                 @@ (them :> her) @@ (their :> her) @@ (theirs :> hers)
          [] p = "they" ->
                 (he :> they) @@ (him :> them) @@ (his :> their) @@ (she :> they)
                 @@ (her :> them) @@ (hers :> theirs)]

POV_MAP ==
    [p \in POV |->
        CASE p = "he" ->
                 (she :> he) @@ (her :> him) @@ (hers :> his) @@ (they :> he)
                 @@ (them :> him) @@ (their :> his) @@ (theirs :> his)
          [] p = "she" ->
                 (he :> she) @@ (him :> her) @@ (his :> her) @@ (they :> she)
                 @@ (them :> her) @@ (their :> her) @@ (theirs :> hers)
          [] p = "they" ->
                 (he :> they) @@ (him :> them) @@ (his :> their) @@ (she :> they)
                 @@ (her :> them) @@ (hers :> theirs)]

\* The alternatives of allRe, in the order the regular expression tries them.
allReAlternatives == <<he, him, his, she, her, hers, they, them, their, theirs>>

\* \w of a regular expression without the u flag.
IsWordChar(c) == IsLower(c) \/ IsUpper(c) \/ c \in Digits \/ c = "_"

\* \b at 0-based position i of text.
WordBoundary(text, i) ==
    LET before == i > 0 /\ IsWordChar(text[i])
        after == i < Len(text) /\ IsWordChar(text[i + 1])
    IN  before /= after

\* Whether alternative alt matches text at position i under the i flag,
\* between two \b.
AltMatchesAt(text, i, alt) ==
    /\ i + Len(alt) <= Len(text)
    /\ WordBoundary(text, i)
    /\ WordBoundary(text, i + Len(alt))
    /\ toLowerCase(slice(text, i, i + Len(alt))) = alt

\* Length of the match of allRe that starts at i (the first alternative that
\* succeeds), 0 when there is none.
allReMatchAt(text, i) ==
    LET ok == {k \in DOMAIN allReAlternatives : AltMatchesAt(text, i, allReAlternatives[k])}
    IN  IF ok = {} THEN 0
        ELSE Len(allReAlternatives[CHOOSE k \in ok : \A j \in ok : k <= j])

RECURSIVE matchAllFrom(_, _)
\* text.matchAll(allRe) from position i on: [index, token] records in order.
matchAllFrom(text, i) ==
    IF i >= Len(text) THEN <<>>
    ELSE LET n == allReMatchAt(text, i)
         IN  IF n = 0 THEN matchAllFrom(text, i + 1)
             ELSE <<[index |-> i, token |-> slice(text, i, i + n)]>>
                  \o matchAllFrom(text, i + n)

matchAll(text) == matchAllFrom(text, 0)

\* The category whose literal set holds lower (the first in key order).
categoryOf(lower) ==
    LET ks == {k \in DOMAIN POVKeys : lower \in PRONOUNS[POVKeys[k]]}
    IN  POVKeys[CHOOSE k \in ks : \A j \in ks : k <= j]

-----------------------------------------------------------------------------
(* Suggestions.  A suggestion's range is anchor..focus inside the text node *)
(* at path; `reason` is display text only and is left out.                 *)

Suggestion(id, kind, path, anchor, focus, replacement) ==
    [id |-> id, kind |-> kind, path |-> path, anchor |-> anchor,
     focus |-> focus, replacement |-> replacement]

RangeStart(s) == Min(s.anchor, s.focus)

RangeEnd(s) == Max(s.anchor, s.focus)

RECURSIVE povFromMatches(_, _, _, _)
\* The loop body of getPOVPropagationSuggestions over the matches ms; uid()
\* is modelled by fresh numbers counted from nextId.
povFromMatches(ms, path, target, nextId) ==
    IF ms = <<>> THEN <<>>
    ELSE LET m == Head(ms)
             lower == toLowerCase(m.token)
         IN  IF lower \in PRONOUNS[target] THEN povFromMatches(Tail(ms), path, target, nextId)
             ELSE IF lower \notin DOMAIN POV_MAP[target]
                  THEN povFromMatches(Tail(ms), path, target, nextId)
                  ELSE <<Suggestion(nextId, "pov-pronoun-propagation", path, m.index,
                                    m.index + Len(m.token),
                                    matchTokenCase(POV_MAP[target][lower], m.token))>>
                       \o povFromMatches(Tail(ms), path, target, nextId + 1)

getPOVPropagationSuggestions(text, path, target, nextId) ==
    povFromMatches(matchAll(text), path, target, nextId)

-----------------------------------------------------------------------------
(* The document: editor.children is a sequence of paragraph blocks, a block *)
(* a sequence of text nodes [text, bold].  Slate keeps adjacent text nodes  *)
(* with equal marks merged, so neighbours differ in `bold`.                 *)

TextNode(text, bold) == [text |-> text, bold |-> bold]

RECURSIVE Concat(_)
Concat(ss) == IF ss = <<>> THEN <<>> ELSE Head(ss) \o Concat(Tail(ss))

\* Node.string(Node.get(editor, paragraphPath)), paragraphPath = <<b>>.
NodeString(d, b) == Concat([i \in 1..Len(d[b + 1]) |-> d[b + 1][i].text])

HasPath(d, path) ==
    /\ path[1] + 1 \in DOMAIN d
    /\ path[2] + 1 \in DOMAIN d[path[1] + 1]

TextAt(d, path) == d[path[1] + 1][path[2] + 1].text

RECURSIVE BlockTexts(_, _, _)
\* The text nodes of block b from segment index s on, as [path, text].
BlockTexts(d, b, s) ==
    IF s >= Len(d[b + 1]) THEN <<>>
    ELSE <<[path |-> <<b, s>>, text |-> d[b + 1][s + 1].text]>> \o BlockTexts(d, b, s + 1)

RECURSIVE NodeTexts(_, _)
\* Node.texts(editor, {from: <<b>>}): Slate's traversal starts at `from` and,
\* with no `to`, runs on to the end of the document, so the text nodes of
\* the blocks after b are enumerated as well.
NodeTexts(d, b) ==
    IF b >= Len(d) THEN <<>>
    ELSE BlockTexts(d, b, 0) \o NodeTexts(d, b + 1)

RECURSIVE WithOffsets(_, _)
\* paragraphTextNodes: each node with its linear start and end.
WithOffsets(nodes, currentOffset) ==
    IF nodes = <<>> THEN <<>>
    ELSE LET n == Head(nodes)
         IN  <<[path |-> n.path, text |-> n.text, start |-> currentOffset,
                end |-> currentOffset + Len(n.text)]>>
             \o WithOffsets(Tail(nodes), currentOffset + Len(n.text))

paragraphTextNodes(d, b) == WithOffsets(NodeTexts(d, b), 0)

-----------------------------------------------------------------------------
(* Position mapping of linear matches *)

\* A linear match as the sources produce it; replacements is the list of
\* candidate values.
Match(offset, length, replacements) ==
    [offset |-> offset, length |-> length, replacements |-> replacements]

\* match.replacements[0]?.value || ""
firstReplacement(match) ==
    IF match.replacements = <<>> THEN <<>> ELSE match.replacements[1]

\* The inner loop with a break after its first fragment.
fragmentsFirstOnly(nodes, mStart, mEnd, id, kind, replacement) ==
    LET hit == {i \in DOMAIN nodes : Max(mStart, nodes[i].start) < Min(mEnd, nodes[i].end)}
    IN  IF hit = {} THEN <<>>
        ELSE LET node == nodes[CHOOSE i \in hit : \A j \in hit : i <= j]
             IN  <<Suggestion(id, kind, node.path, Max(mStart, node.start) - node.start,
                              Min(mEnd, node.end) - node.start, replacement)>>

RECURSIVE fragments(_, _, _, _, _, _)
\* The inner loop over paragraphTextNodes for one match [mStart, mEnd).
fragments(nodes, mStart, mEnd, id, kind, replacement) ==
    IF nodes = <<>> THEN <<>>
    ELSE LET node == Head(nodes)
             intersectStart == Max(mStart, node.start)
             intersectEnd == Min(mEnd, node.end)
             rest == fragments(Tail(nodes), mStart, mEnd, id, kind, replacement)
         IN  IF intersectStart < intersectEnd
             THEN <<Suggestion(id, kind, node.path, intersectStart - node.start,
                               intersectEnd - node.start, replacement)>> \o rest
             ELSE rest

RECURSIVE mapMatches(_, _, _)
\* The loop over allMatches; the k-th match draws the k-th uid.
mapMatches(allMatches, nodes, nextId) ==
    IF allMatches = <<>> THEN <<>>
    ELSE LET match == Head(allMatches)
         IN  fragments(nodes, match.offset, match.offset + match.length, nextId,
                       "grammar", firstReplacement(match))
             \o mapMatches(Tail(allMatches), nodes, nextId + 1)

\* findPathAndOffset found no node.
NoPoint == [null |-> TRUE]

RECURSIVE findPathAndOffset(_, _)
\* findPathAndOffset(absOffset) over the table nodes: the first node whose
\* span, both ends included, holds the offset.
findPathAndOffset(nodes, absOffset) ==
    IF nodes = <<>> THEN NoPoint
    ELSE LET node == Head(nodes)
         IN  IF absOffset >= node.start /\ absOffset <= node.end
             THEN [path |-> node.path, offset |-> absOffset - node.start]
             ELSE findPathAndOffset(Tail(nodes), absOffset)

-----------------------------------------------------------------------------
(* Local deterministic rules and user-defined rules *)

IsSpace(c) == c = " "

AllSpaces(str) == \A i \in DOMAIN str : IsSpace(str[i])

\* Whether word w stands at position i of text, compared under the i flag.
WordAt(text, i, w) ==
    /\ i >= 0
    /\ i + Len(w) <= Len(text)
    /\ toLowerCase(slice(text, i, i + Len(w))) = toLowerCase(w)

\* (?<!\b(if|wish|suppose|that)\s+) at position i: TRUE when the lookbehind
\* pattern does match a stretch of text that ends at i.
itWereLookbehind(text, i) ==
    \E w \in {<<"i", "f">>, <<"w", "i", "s", "h">>, <<"t", "h", "a", "t">>,
              <<"s", "u", "p", "p", "o", "s", "e">>} :
        \E k \in 1..i :
            /\ AllSpaces(slice(text, i - k, i))
            /\ WordAt(text, i - k - Len(w), w)
            /\ WordBoundary(text, i - k - Len(w))

itWereSubjects == <<<<"i", "t">>, she, he>>

were == <<"w", "e", "r", "e">>

\* The match of \b(it|she|he)\b\s+(were)\b that starts at i with subject
\* alternative k and n blanks: its length, or 0.
itWereLen(text, i, k, n) ==
    LET subj == itWereSubjects[k]
        e1 == i + Len(subj)
        e2 == e1 + n
    IN  IF /\ WordBoundary(text, i)
           /\ WordAt(text, i, subj)
           /\ WordBoundary(text, e1)
           /\ e2 <= Len(text)
           /\ AllSpaces(slice(text, e1, e2))
           /\ WordAt(text, e2, were)
           /\ WordBoundary(text, e2 + Len(were))
        THEN Len(subj) + n + Len(were)
        ELSE 0

\* The match of itWereRe at i: [subject, length], length 0 when none.
itWereMatchAt(text, i) ==
    LET cands == {c \in (DOMAIN itWereSubjects) \X (1..Len(text)) :
                      itWereLen(text, i, c[1], c[2]) > 0}
    IN  IF itWereLookbehind(text, i) \/ cands = {}
        THEN [subject |-> <<>>, length |-> 0]
        ELSE LET c == CHOOSE x \in cands : \A y \in cands : x[1] <= y[1]
             IN  [subject |-> slice(text, i, i + Len(itWereSubjects[c[1]])),
                  length |-> itWereLen(text, i, c[1], c[2])]

RECURSIVE itWereFrom(_, _)
itWereFrom(text, i) ==
    IF i >= Len(text) THEN <<>>
    ELSE LET m == itWereMatchAt(text, i)
         IN  IF m.length = 0 THEN itWereFrom(text, i + 1)
             ELSE <<Match(i, m.length, <<m.subject \o <<" ", "w", "a", "s">>>>)>>
                  \o itWereFrom(text, i + m.length)

\* [A-Za-z]
IsLetter(c) == IsLower(c) \/ IsUpper(c)

\* Whether /\b([A-Za-z]+)\b(\s+)\b\1\b/ matches at position i of text with
\* a word of n letters and k blanks.  The \b after the word and the \b
\* before its repetition leave one n and one k at most.
repeatReMatches(text, i, n, k) ==
    /\ i + 2 * n + k <= Len(text)
    /\ WordBoundary(text, i)
    /\ \A j \in (i + 1)..(i + n) : IsLetter(text[j])
    /\ WordBoundary(text, i + n)
    /\ AllSpaces(slice(text, i + n, i + n + k))
    /\ WordBoundary(text, i + n + k)
    /\ slice(text, i + n + k, i + 2 * n + k) = slice(text, i, i + n)
    /\ WordBoundary(text, i + 2 * n + k)

RECURSIVE repeatWordFrom(_, _, _, _)
\* The repeated-word rule of the first revision, from position i on: one
\* suggestion per match of repeatRe, over the second word only.
repeatWordFrom(text, i, path, nextId) ==
    IF i >= Len(text) THEN <<>>
    ELSE LET ms == {c \in (1..Len(text)) \X (1..Len(text)) :
                        repeatReMatches(text, i, c[1], c[2])}
         IN  IF ms = {} THEN repeatWordFrom(text, i + 1, path, nextId)
             ELSE LET c == CHOOSE x \in ms : TRUE
                      secondWordStart == i + c[1] + c[2]
                  IN  <<Suggestion(nextId, "repeat-word", path, secondWordStart,
                                   secondWordStart + c[1], <<>>)>>
                      \o repeatWordFrom(text, secondWordStart + c[1], path, nextId + 1)

repeatWordSuggestions(text, path, nextId) == repeatWordFrom(text, 0, path, nextId)

\* A user rule is [pattern, replacement]; its pattern source is one of the
\* shapes the rule generator writes: [type |-> "word", word |-> w] for
\* \bw\b, [type |-> "literal", word |-> w] for the bare characters w, and
\* [type |-> "invalid"] for a source that new RegExp rejects.
rulePatternMatchesAt(text, i, pattern) ==
    /\ WordAt(text, i, pattern.word)
    /\ pattern.type = "word" =>
           WordBoundary(text, i) /\ WordBoundary(text, i + Len(pattern.word))

RECURSIVE ruleMatchesFrom(_, _, _)
ruleMatchesFrom(text, i, rule) ==
    IF i >= Len(text) THEN <<>>
    ELSE IF ~rulePatternMatchesAt(text, i, rule.pattern)
         THEN ruleMatchesFrom(text, i + 1, rule)
         ELSE LET original == slice(text, i, i + Len(rule.pattern.word))
                  replacement == IF rule.replacement /= <<>>
                                 THEN matchCase(rule.replacement, original)
                                 ELSE <<>>
              IN  <<Match(i, Len(original), <<replacement>>)>>
                  \o ruleMatchesFrom(text, i + Len(original), rule)

RECURSIVE customRuleMatchesAborting(_, _)
\* The loop with the try block around it: the first rule whose pattern does
\* not compile ends the loop.
customRuleMatchesAborting(text, customRules) ==
    IF customRules = <<>> THEN <<>>
    ELSE LET rule == Head(customRules)
         IN  IF rule.pattern.type = "invalid" THEN <<>>
             ELSE ruleMatchesFrom(text, 0, rule)
                  \o customRuleMatchesAborting(text, Tail(customRules))

RECURSIVE customRuleMatches(_, _)
\* The loop over customRules; a rule whose pattern does not compile throws
\* inside the try block and adds nothing.
customRuleMatches(text, customRules) ==
    IF customRules = <<>> THEN <<>>
    ELSE LET rule == Head(customRules)
         IN  (IF rule.pattern.type = "invalid" THEN <<>>
              ELSE ruleMatchesFrom(text, 0, rule))
             \o customRuleMatches(text, Tail(customRules))

getLocalGrammarSuggestions(text, customRules) ==
    itWereFrom(text, 0) \o customRuleMatches(text, customRules)

-----------------------------------------------------------------------------
(* Anchor inference *)

\* editor.selection === null
NoSelection == [null |-> TRUE]

NoPOV == "null"

Point(path, offset) == [path |-> path, offset |-> offset]

\* The conversion that takes the cursor's offset inside its node for the
\* linear offset.
absoluteFromLocal(nodes, cursor, absolute) == cursor.offset

RECURSIVE absoluteFrom(_, _, _)
\* The loop that converts the cursor point to a linear offset: a node whose
\* path is not the cursor's adds its whole length, and the loop ends without
\* a break when no node has the cursor's path.
absoluteFrom(nodes, cursor, absolute) ==
    IF nodes = <<>> THEN absolute
    ELSE IF Head(nodes).path = cursor.path THEN absolute + cursor.offset
         ELSE absoluteFrom(Tail(nodes), cursor, absolute + Len(Head(nodes).text))

absoluteOffset(d, b, cursor) == absoluteFrom(NodeTexts(d, b), cursor, 0)

\* Half-width of the window in which a capitalized word is looked for.
WindowRadius == 15

\* Whether /\b[A-Z][a-z]+\b/ matches at position i of str.
nameAt(str, i) ==
    /\ WordBoundary(str, i)
    /\ i < Len(str)
    /\ IsUpper(str[i + 1])
    /\ \E n \in 1..(Len(str) - i - 1) :
           /\ \A j \in (i + 2)..(i + 1 + n) : IsLower(str[j])
           /\ WordBoundary(str, i + 1 + n)

contextWindow(paragraphText, absolute) ==
    slice(paragraphText, Max(0, absolute - WindowRadius),
          Min(Len(paragraphText), absolute + WindowRadius))

\* contextWindow.match(...) is not null
nameMatch(paragraphText, absolute) ==
    LET w == contextWindow(paragraphText, absolute)
    IN  \E i \in 0..(Len(w) - 1) : nameAt(w, i)

distance(absolute, start, end) ==
    IF absolute < start THEN start - absolute
    ELSE IF absolute > end THEN absolute - end
    ELSE 0

RECURSIVE nearestFromLatest(_, _, _, _)
\* The loop with `<=` for `<`: on equal distances the later pronoun wins.
nearestFromLatest(ms, absolute, minDistance, nearestPOV) ==
    IF ms = <<>> THEN nearestPOV
    ELSE LET m == Head(ms)
             dist == distance(absolute, m.index, m.index + Len(m.token))
         IN  IF minDistance = -1 \/ dist <= minDistance
             THEN nearestFromLatest(Tail(ms), absolute, dist, categoryOf(toLowerCase(m.token)))
             ELSE nearestFromLatest(Tail(ms), absolute, minDistance, nearestPOV)

RECURSIVE nearestFrom(_, _, _, _)
\* The loop over the pronoun matches with the running minimum; minDistance
\* -1 stands for Infinity.
nearestFrom(ms, absolute, minDistance, nearestPOV) ==
    IF ms = <<>> THEN nearestPOV
    ELSE LET m == Head(ms)
             dist == distance(absolute, m.index, m.index + Len(m.token))
         IN  IF minDistance = -1 \/ dist < minDistance
             THEN nearestFrom(Tail(ms), absolute, dist, categoryOf(toLowerCase(m.token)))
             ELSE nearestFrom(Tail(ms), absolute, minDistance, nearestPOV)

\* Step 2 of inferTargetPOV: the nearest-pronoun heuristic.
nearestPronounPOV(paragraphText, absolute) ==
    nearestFrom(matchAll(paragraphText), absolute, -1, NoPOV)

\* Whether inferTargetPOV calls the AI collaborator.
inferAsksAI(d, b, sel, apiKey) ==
    /\ apiKey /= ""
    /\ nameMatch(NodeString(d, b), absoluteOffset(d, b, sel.anchor))

\* inferTargetPOV; response is the collaborator's trimmed, lower-cased
\* answer ("fail" when the call throws), read only when the call is made.
inferTargetPOV(d, b, sel, apiKey, response) ==
    IF inferAsksAI(d, b, sel, apiKey) /\ response \in POV THEN response
    ELSE nearestPronounPOV(NodeString(d, b), absoluteOffset(d, b, sel.anchor))

-----------------------------------------------------------------------------
(* AI coreference adapter *)

\* A collaborator's answer: the call failed (network error, unparseable or
\* shapeless body) or it delivered a list.
Failed == [ok |-> FALSE, matches |-> <<>>]

Answer(matches) == [ok |-> TRUE, matches |-> matches]

\* One entry of the collaborator's JSON array.
CorefMatch(offset, length, original, replacement) ==
    [offset |-> offset, length |-> length, original |-> original,
     replacement |-> replacement]

RECURSIVE corefMap(_, _, _, _)
corefMap(matches, nodes, nextId, kind) ==
    IF matches = <<>> THEN <<>>
    ELSE LET match == Head(matches)
         IN  fragments(nodes, match.offset, match.offset + match.length, nextId, kind,
                       matchTokenCase(match.replacement, match.original))
             \o corefMap(Tail(matches), nodes, nextId + 1, kind)

\* Whether getCorefSuggestionsFromGemini ends in its catch block: the call
\* or JSON.parse throws, or matchTokenCase throws inside the loop.
corefFailed(nodes, response, nextId) ==
    \/ ~response.ok
    \/ LET out == corefMap(response.matches, nodes, nextId, "pov-pronoun-propagation")
       IN  \E i \in DOMAIN out : out[i].replacement = TypeError

\* getCorefSuggestionsFromGemini; response is a failure (the call or
\* JSON.parse throws) or the parsed array.  An exception inside the loop is
\* caught by the same try block and the function returns the empty list.
getCorefSuggestionsFromGemini(nodes, response, nextId) ==
    IF ~response.ok THEN <<>>
    ELSE LET out == corefMap(response.matches, nodes, nextId, "pov-pronoun-propagation")
         IN  IF \E i \in DOMAIN out : out[i].replacement = TypeError THEN <<>> ELSE out

-----------------------------------------------------------------------------
(* Aggregation: sort and de-duplication *)

\* The comparator of suggestions.sort: the start offsets only.
compareSuggestions(a, b) == RangeStart(a) - RangeStart(b)

RECURSIVE insertSorted(_, _)
\* Inserts x into the sorted list after every element that does not compare
\* greater: Array.prototype.sort is stable.
insertSorted(sorted, x) ==
    IF sorted = <<>> THEN <<x>>
    ELSE IF compareSuggestions(x, sorted[Len(sorted)]) >= 0 THEN Append(sorted, x)
         ELSE Append(insertSorted(SubSeq(sorted, 1, Len(sorted) - 1), x), sorted[Len(sorted)])

RECURSIVE sortSuggestions(_)
sortSuggestions(list) ==
    IF list = <<>> THEN <<>>
    ELSE insertSorted(sortSuggestions(SubSeq(list, 1, Len(list) - 1)), list[Len(list)])

\* A de-duplication key that leaves the replacement out.
dedupeKeyWithoutReplacement(s) == <<s.path, RangeStart(s), RangeEnd(s)>>

\* The de-duplication key; the template string separates its four parts
\* unambiguously, so equal strings are equal tuples.
dedupeKey(s) == <<s.path, RangeStart(s), RangeEnd(s), s.replacement>>

RECURSIVE dedupeFrom(_, _)
dedupeFrom(list, seen) ==
    IF list = <<>> THEN <<>>
    ELSE IF dedupeKey(Head(list)) \in seen THEN dedupeFrom(Tail(list), seen)
         ELSE <<Head(list)>> \o dedupeFrom(Tail(list), seen \cup {dedupeKey(Head(list))})

dedupe(list) == dedupeFrom(list, {})

-----------------------------------------------------------------------------
(* One analysis pass, getSuggestionsForParagraph, as the stages between    *)
(* its awaits.  A pass record carries the arguments, the locals and `pc`,  *)
(* the await the pass is suspended at.                                      *)

\* paragraphText.trim() is empty
isBlank(text) == AllSpaces(text)

\* A failed call that surfaces as one match over the first character.
getSuggestionsFromLTFailure(response) ==
    IF response.ok THEN response.matches ELSE <<Match(0, 1, <<>>)>>

\* getSuggestionsFromLT: a failed call or a response without `matches`
\* gives the empty list.
getSuggestionsFromLT(response) == IF response.ok THEN response.matches ELSE <<>>

\* The synchronous head of the pass: the arguments are bound and the block
\* text is read before the grammar service is awaited.  ltOk and
\* inferResult record which way the collaborators' answers went: whether
\* the grammar service delivered, and whether the category collaborator was
\* asked and named a category.  coref records whether the coreference
\* adapter was called and whether it returned normally, fromAI the list it
\* returned.
passStart(d, b, sel, customRules, settings, apiKey) ==
    [paragraphPath |-> b, sel |-> sel, customRules |-> customRules,
     settings |-> settings, apiKey |-> apiKey, paragraphText |-> NodeString(d, b),
     pc |-> "lt", ltOk |-> TRUE, inferResult |-> "none", coref |-> "none",
     fromAI |-> <<>>, allMatches |-> <<>>, suggestions |-> <<>>, nodes |-> <<>>, nextId |-> 1,
     inferText |-> <<>>, absolute |-> 0, targetPOV |-> NoPOV,
     sorted |-> <<>>, result |-> <<>>]

RECURSIVE heuristicAll(_, _, _)
\* The fallback loop: getPOVPropagationSuggestions for every node.
heuristicAll(nodes, target, nextId) ==
    IF nodes = <<>> THEN <<>>
    ELSE LET here == getPOVPropagationSuggestions(Head(nodes).text, Head(nodes).path,
                                                  target, nextId)
         IN  here \o heuristicAll(Tail(nodes), target, nextId + Len(here))

\* From the pov suggestions to the returned list: fallback, push, sort,
\* de-duplicate.
passFinish(p, target, fromAI) ==
    LET povList == IF target = NoPOV THEN <<>>
                   ELSE IF fromAI = <<>> THEN heuristicAll(p.nodes, target, p.nextId)
                   ELSE fromAI
        sorted == sortSuggestions(p.suggestions \o povList)
    IN  [p EXCEPT !.pc = "done", !.targetPOV = target, !.sorted = sorted,
                  !.result = dedupe(sorted)]

\* After inferTargetPOV returned target: the coreference adapter is awaited
\* when there is a target and a key.
passAfterTarget(p, target) ==
    IF target /= NoPOV /\ p.apiKey /= ""
    THEN [p EXCEPT !.pc = "coref", !.targetPOV = target]
    ELSE passFinish(p, target, <<>>)

\* The grammar service answered with ltResponse; d is the document now.
passAfterLT(d, p, ltResponse) ==
    LET ltMatches == getSuggestionsFromLT(ltResponse)
        localMatches == IF p.settings.localFallbacks
                        THEN getLocalGrammarSuggestions(p.paragraphText, p.customRules)
                        ELSE <<>>
        nodes == paragraphTextNodes(d, p.paragraphPath)
        allMatches == ltMatches \o localMatches
        p1 == [p EXCEPT !.nodes = nodes,
                        !.ltOk = ltResponse.ok,
                        !.allMatches = allMatches,
                        !.suggestions = mapMatches(allMatches, nodes, 1),
                        !.nextId = Len(allMatches) + 1]
    IN  IF p.sel /= NoSelection /\ p.settings.povPropagation
        THEN LET text == NodeString(d, p.paragraphPath)
                 absolute == absoluteOffset(d, p.paragraphPath, p.sel.anchor)
                 p2 == [p1 EXCEPT !.inferText = text, !.absolute = absolute]
             IN  IF inferAsksAI(d, p.paragraphPath, p.sel, p.apiKey)
                 THEN [p2 EXCEPT !.pc = "infer"]
                 ELSE passAfterTarget(p2, nearestPronounPOV(text, absolute))
        ELSE passAfterTarget(p1, NoPOV)

\* inferTargetPOV returning null when the collaborator names no category.
passAfterInferNoFallback(p, response) ==
    IF response \in POV
    THEN passAfterTarget([p EXCEPT !.inferResult = "category"], response)
    ELSE passAfterTarget([p EXCEPT !.inferResult = "no category"], NoPOV)

\* The category collaborator answered (or failed) inside inferTargetPOV.
passAfterInfer(p, response) ==
    IF response \in POV
    THEN passAfterTarget([p EXCEPT !.inferResult = "category"], response)
    ELSE passAfterTarget([p EXCEPT !.inferResult = "no category"],
                         nearestPronounPOV(p.inferText, p.absolute))

\* The coreference collaborator answered (or failed).
passAfterCoref(p, response) ==
    LET fromAI == getCorefSuggestionsFromGemini(p.nodes, response, p.nextId)
    IN  passFinish([p EXCEPT !.nextId = p.nextId + Len(response.matches),
                             !.coref = IF corefFailed(p.nodes, response, p.nextId)
                                       THEN "failed" ELSE "answered",
                             !.fromAI = fromAI],
                   p.targetPOV, fromAI)

-----------------------------------------------------------------------------
(* Editing: Transforms.insertText at a suggestion's range, the selection   *)
(* Slate carries along, and the normalization that ends every edit.         *)

Collapsed(pt) == [anchor |-> pt, focus |-> pt]

IsCollapsed(sel) == sel /= NoSelection /\ sel.anchor = sel.focus

\* The text of the node after remove_text of slice(start, end) at start and
\* insert_text of replacement at start; both operations clip as slice does.
replaceInText(text, start, end, replacement) ==
    slice(text, 0, start) \o replacement \o slice(text, end, Len(text))

setText(d, path, text) ==
    [d EXCEPT ![path[1] + 1][path[2] + 1].text = text]

\* Transforms.insertText(editor, s.replacement, {at: s.range}) on state
\* [doc, sel]: the range is deleted, a selection (if any) is collapsed to the
\* start point, the text is inserted there and the cursor moves behind it.
\* A range whose text node no longer exists makes Slate throw: the state is
\* returned with `threw` set and nothing else changed.
insertText(st, s) ==
    IF ~HasPath(st.doc, s.path) THEN [st EXCEPT !.threw = TRUE]
    ELSE LET text == TextAt(st.doc, s.path)
             start == RangeStart(s)
             end == RangeEnd(s)
         IN  [st EXCEPT
                 !.doc = setText(st.doc, s.path,
                                 replaceInText(text, start, end, s.replacement)),
                 !.sel = IF st.sel = NoSelection THEN NoSelection
                         ELSE Collapsed(Point(s.path, start + Len(s.replacement)))]

\* Where a point of block b lands when child i (1-based) is merged into its
\* previous sibling, whose text has length prevLen.
pointAfterMerge(pt, b, i, prevLen) ==
    IF pt.path[1] /= b THEN pt
    ELSE IF pt.path[2] + 1 = i THEN Point(<<b, i - 2>>, pt.offset + prevLen)
    ELSE IF pt.path[2] + 1 > i THEN Point(<<b, pt.path[2] - 1>>, pt.offset)
    ELSE pt

\* Where a point of block b lands when child i (1-based) is removed: a point
\* inside it moves to the end of the previous sibling, or to the start of
\* the next one when it was the first child.
pointAfterRemove(pt, b, i, segs) ==
    IF pt.path[1] /= b THEN pt
    ELSE IF pt.path[2] + 1 = i
         THEN IF i > 1 THEN Point(<<b, i - 2>>, Len(segs[i - 1].text))
              ELSE Point(<<b, 0>>, 0)
    ELSE IF pt.path[2] + 1 > i THEN Point(<<b, pt.path[2] - 1>>, pt.offset)
    ELSE pt

mapSelection(sel, f(_)) ==
    IF sel = NoSelection THEN NoSelection
    ELSE [anchor |-> f(sel.anchor), focus |-> f(sel.focus)]

removeAt(seq, i) == SubSeq(seq, 1, i - 1) \o SubSeq(seq, i + 1, Len(seq))

RECURSIVE normalizeBlock(_, _)
\* Slate's normalizeNode on the children of block b: two adjacent text
\* nodes with equal marks are merged, otherwise an empty one next to
\* another text node is removed; repeated until no rule applies.
normalizeBlock(st, b) ==
    LET segs == st.doc[b + 1]
        hits == {i \in 2..Len(segs) :
                     \/ segs[i].bold = segs[i - 1].bold
                     \/ segs[i - 1].text = <<>>
                     \/ segs[i].text = <<>>}
    IN  IF hits = {} THEN st
        ELSE LET i == CHOOSE x \in hits : \A y \in hits : x <= y
                 prev == segs[i - 1]
                 child == segs[i]
             IN  IF child.bold = prev.bold
                 THEN LET merged == [prev EXCEPT !.text = prev.text \o child.text]
                          f(pt) == pointAfterMerge(pt, b, i, Len(prev.text))
                      IN  normalizeBlock(
                              [st EXCEPT !.doc[b + 1] =
                                             removeAt([segs EXCEPT ![i - 1] = merged], i),
                                         !.sel = mapSelection(st.sel, f)], b)
                 ELSE LET gone == IF prev.text = <<>> THEN i - 1 ELSE i
                          g(pt) == pointAfterRemove(pt, b, gone, segs)
                      IN  normalizeBlock(
                              [st EXCEPT !.doc[b + 1] = removeAt(segs, gone),
                                         !.sel = mapSelection(st.sel, g)], b)

RECURSIVE normalizeFrom(_, _)
normalizeFrom(st, b) ==
    IF b >= Len(st.doc) THEN st ELSE normalizeFrom(normalizeBlock(st, b), b + 1)

\* Editor.normalize at the end of Editor.withoutNormalizing.
normalize(st) == normalizeFrom(st, 0)

EditState(d, sel) == [doc |-> d, sel |-> sel, threw |-> FALSE]

\* Transforms.select(editor, s.range) followed by insertText, inside
\* Editor.withoutNormalizing: the edit of applySuggestion.
applySuggestionEdit(d, s) ==
    normalize(insertText(EditState(d, [anchor |-> Point(s.path, s.anchor),
                                       focus |-> Point(s.path, s.focus)]), s))

\* Path.compare for two text-node paths.
pathCompare(p, q) ==
    IF p[1] /= q[1] THEN (IF p[1] < q[1] THEN -1 ELSE 1)
    ELSE IF p[2] /= q[2] THEN (IF p[2] < q[2] THEN -1 ELSE 1)
    ELSE 0

\* The comparator with both signs turned: ascending path, then ascending
\* anchor offset.
compareBatchAscending(a, b) ==
    IF pathCompare(a.path, b.path) /= 0 THEN pathCompare(a.path, b.path)
    ELSE a.anchor - b.anchor

\* The comparator of applyAllPOVSuggestions: descending path, then
\* descending anchor offset.
compareBatch(a, b) ==
    IF pathCompare(a.path, b.path) /= 0 THEN 0 - pathCompare(a.path, b.path)
    ELSE b.anchor - a.anchor

RECURSIVE insertBatch(_, _)
insertBatch(sorted, x) ==
    IF sorted = <<>> THEN <<x>>
    ELSE IF compareBatch(x, sorted[Len(sorted)]) >= 0 THEN Append(sorted, x)
         ELSE Append(insertBatch(SubSeq(sorted, 1, Len(sorted) - 1), x), sorted[Len(sorted)])

\* The batch applied in the order of the list, without the sort.
sortBatchUnsorted(list) == list

RECURSIVE sortBatch(_)
sortBatch(list) ==
    IF list = <<>> THEN <<>>
    ELSE insertBatch(sortBatch(SubSeq(list, 1, Len(list) - 1)), list[Len(list)])

RECURSIVE applyLoop(_, _, _)
\* The for loop of applyAllPOVSuggestions over the sorted batch.  `seen`
\* collects, for every edit, the text found inside its range when the edit
\* is applied.  An exception ends the loop.
applyLoop(st, sorted, seen) ==
    IF sorted = <<>> \/ st.threw THEN [st |-> st, seen |-> seen]
    ELSE LET s == Head(sorted)
             found == IF HasPath(st.doc, s.path)
                      THEN slice(TextAt(st.doc, s.path), RangeStart(s), RangeEnd(s))
                      ELSE TypeError
         IN  applyLoop(insertText(st, s), Tail(sorted), Append(seen, found))

\* The edit of applyAllPOVSuggestions on document d with selection sel:
\* [st, seen, order], st the state after normalization.
applyAllEdit(d, sel, list) ==
    LET order == sortBatch(list)
        run == applyLoop(EditState(d, sel), order, <<>>)
    IN  [st |-> normalize(run.st), seen |-> run.seen, order |-> order]

-----------------------------------------------------------------------------
(* Cursor lookup and the two lists of the sidebar *)

\* getSuggestionAtCursor found nothing / no candidate yet.
NoSuggestion == [none |-> TRUE]

RECURSIVE cursorScan(_, _, _, _)
\* The for loop of getSuggestionAtCursor: `after` and `before` are the
\* nearest candidates so far, each NoSuggestion or [s, dist].
cursorScan(all, point, after, before) ==
    IF all = <<>> THEN [after |-> after, before |-> before]
    ELSE LET s == Head(all)
             dist == RangeStart(s) - point.offset
         IN  IF s.path /= point.path THEN cursorScan(Tail(all), point, after, before)
             ELSE IF dist >= 0
                  THEN cursorScan(Tail(all), point,
                                  IF after = NoSuggestion \/ dist < after.dist
                                  THEN [s |-> s, dist |-> dist] ELSE after,
                                  before)
                  ELSE cursorScan(Tail(all), point, after,
                                  IF before = NoSuggestion \/ 0 - dist < before.dist
                                  THEN [s |-> s, dist |-> 0 - dist] ELSE before)

\* A lookup that prefers a suggestion whose range holds the cursor over the
\* nearest one that starts after it.
getSuggestionContaining(sel, all) ==
    IF sel = NoSelection \/ ~IsCollapsed(sel) THEN NoSuggestion
    ELSE LET holds == {i \in DOMAIN all :
                           /\ all[i].path = sel.anchor.path
                           /\ RangeStart(all[i]) <= sel.anchor.offset
                           /\ sel.anchor.offset <= RangeEnd(all[i])}
             found == cursorScan(all, sel.anchor, NoSuggestion, NoSuggestion)
         IN  IF holds /= {} THEN all[CHOOSE i \in holds : \A j \in holds : i <= j]
             ELSE IF found.after /= NoSuggestion THEN found.after.s
             ELSE IF found.before /= NoSuggestion THEN found.before.s
             ELSE NoSuggestion

\* The lookup that prefers the nearest suggestion starting before the cursor
\* to the nearest one starting at or after it.
getSuggestionBackwardFirst(sel, all) ==
    IF sel = NoSelection \/ ~IsCollapsed(sel) THEN NoSuggestion
    ELSE LET found == cursorScan(all, sel.anchor, NoSuggestion, NoSuggestion)
         IN  IF found.before /= NoSuggestion THEN found.before.s
             ELSE IF found.after /= NoSuggestion THEN found.after.s
             ELSE NoSuggestion

\* getSuggestionAtCursor with editor.selection = sel and
\* all = [...suggestions, ...povSuggestions].
getSuggestionAtCursor(sel, all) ==
    IF sel = NoSelection \/ ~IsCollapsed(sel) THEN NoSuggestion
    ELSE LET found == cursorScan(all, sel.anchor, NoSuggestion, NoSuggestion)
         IN  IF found.after /= NoSuggestion THEN found.after.s
             ELSE IF found.before /= NoSuggestion THEN found.before.s
             ELSE NoSuggestion

\* The two lists recomputeSuggestions splits a pass's result into.
\* all.filter(s => s.kind !== "pov-pronoun-propagation")
immediate(all) == SelectSeq(all, LAMBDA s : s.kind /= "pov-pronoun-propagation")

\* all.filter(s => s.kind === "pov-pronoun-propagation")
gated(all) == SelectSeq(all, LAMBDA s : s.kind = "pov-pronoun-propagation")

-----------------------------------------------------------------------------
(* Function-level specification SpecFn: `call` is a call of one of the     *)
(* engine's functions with arguments drawn from bounded sets, `ret` what   *)
(* it has returned so far.                                                  *)

Pending == [state |-> "pending"]

Returned(v) == [state |-> "returned", value |-> v]

\* Longest text, in words, handed to getPOVPropagationSuggestions.
MaxPovWords == 2

PovWords ==
    {he, <<"H", "e">>, <<"H", "E">>, him, his, <<"H", "i", "s">>, she, <<"S", "H", "E">>, her, hers, they,
     <<"T", "h", "e", "m">>, their, theirs, <<"t", "h", "e">>, <<"h", "e", "2">>, <<"h", "e", "r", "x">>}

\* The words of the texts of several words.
JoinWords == {he, <<"H", "i", "s">>, her, they, theirs, <<"t", "h", "e">>}

Separators == {<<" ">>, <<"_">>}

RECURSIVE JoinedTexts(_)
\* The texts of exactly n words of JoinWords, joined by the separators.
JoinedTexts(n) ==
    IF n = 1 THEN JoinWords
    ELSE {x \o sep \o w : x \in JoinedTexts(n - 1), sep \in Separators, w \in JoinWords}

\* Every word of PovWords by itself, and the joined texts of 2..n words.
TextsOfWords(n) == PovWords \cup UNION {JoinedTexts(k) : k \in 2..n}

POVCalls ==
    {[fn |-> "getPOVPropagationSuggestions", text |-> x, target |-> tg, aligned |-> FALSE,
      applied |-> 0] :
        x \in TextsOfWords(MaxPovWords), tg \in POV}

Desireds == {<<"w", "o", "r", "l", "d">>, <<"a", "n">>, <<"a">>, <<"W", "a", "s">>}

Originals ==
    {<<"H", "E", "L", "L", "O">>, <<"H", "e", "l", "l", "o">>, <<"h", "e", "l", "l", "o">>, <<"h", "E", "L", "L", "O">>, <<"A">>, <<"a">>, <<"A", "n">>, <<" ", "h", "e", "l", "l", "o">>,
     <<"2", "n", "d">>, <<"1", "2">>, <<" ", " ">>, <<>>}

MatchCaseCalls ==
    {[fn |-> "matchCase", desired |-> x, original |-> y] : x \in Desireds, y \in Originals}

\* Documents handed to a pass: two blocks of one text node each; one block
\* of two text nodes; one block whose pronoun straddles its two text nodes;
\* a blank block followed by a block with text.
DocTwoBlocks ==
    <<<<TextNode(<<"H", "e", " ", "s", "a", "w", " ", "h", "e", "r">>, FALSE)>>, <<TextNode(<<"s", "h", "e", " ", "r", "a", "n">>, FALSE)>>>>

DocTwoNodes ==
    <<<<TextNode(<<"h", "e", " ">>, FALSE), TextNode(<<"i", "t", " ", "w", "e", "r", "e">>, TRUE)>>>>

DocStraddle ==
    <<<<TextNode(<<"A", "m", "y", " ", "t", "h">>, FALSE), TextNode(<<"e", "y", " ", "x">>, TRUE)>>>>

DocBlank ==
    <<<<TextNode(<<" ", " ">>, FALSE)>>, <<TextNode(<<"h", "i", "s">>, FALSE)>>>>

FnDocs == {DocTwoBlocks, DocTwoNodes, DocStraddle, DocBlank}

\* The cursor positions tried in block b of d: the start of its first text
\* node and the end of its last one.
CursorsIn(d, b) ==
    {Collapsed(Point(<<b, 0>>, 0)),
     Collapsed(Point(<<b, Len(d[b + 1]) - 1>>, Len(d[b + 1][Len(d[b + 1])].text)))}

WordRule(w, r) == [pattern |-> [type |-> "word", word |-> w], replacement |-> r]

LiteralRule(w, r) == [pattern |-> [type |-> "literal", word |-> w], replacement |-> r]

InvalidRule == [pattern |-> [type |-> "invalid", word |-> <<>>], replacement |-> <<>>]

RuleLists ==
    {<<>>,
     <<WordRule(<<"s", "a", "w">>, <<"m", "e", "t">>)>>,
     <<InvalidRule, LiteralRule(<<" ", " ">>, <<>>)>>}

Settings == [povPropagation : BOOLEAN, localFallbacks : BOOLEAN]

ApiKeys == {"", "key"}

\* Most matches in one answer of the grammar service.
MaxLTMatches == 2

\* The matches the grammar service may report for a text of length n.
LTMatchesFor(n) ==
    {Match(3, 0, <<<<"X">>>>), Match(0, 2, <<<<"S", "h", "e">>>>), Match(0, 3, <<<<"X">>>>), Match(2, 3, <<>>),
     Match(4, 1, <<<<"Y">>, <<"X">>>>), Match(n - 1, 2, <<<<"X", "Y">>>>)}

RECURSIVE SeqsUpTo(_, _)
\* The sequences of at most n elements of S.
SeqsUpTo(S, n) ==
    IF n = 0 THEN {<<>>}
    ELSE LET shorter == SeqsUpTo(S, n - 1)
         IN  shorter \cup {Append(q, x) : q \in shorter, x \in S}

LTAnswers(n) == {Failed} \cup {Answer(q) : q \in SeqsUpTo(LTMatchesFor(n), MaxLTMatches)}

InferAnswers == {"she", "they", "unknown", "fail"}

CorefAnswers ==
    {Failed, Answer(<<>>),
     Answer(<<CorefMatch(0, 2, <<"H", "e">>, <<"s", "h", "e">>)>>),
     Answer(<<CorefMatch(4, 4, <<"t", "h", "e", "y">>, <<"s", "h", "e">>), CorefMatch(4, 4, <<"t", "h", "e", "y">>, <<"s", "h", "e">>)>>),
     Answer(<<CorefMatch(0, 2, <<>>, <<"s", "h", "e">>)>>)}

\* The calls of a pass on document d.  An argument the pass does not read
\* under the settings of the call takes one value only: the rule list
\* without localFallbacks, the key without povPropagation.  User rules and
\* the AI collaborators do not read each other's data, so a call has user
\* rules or a key, not both.
PassCallsOn(d) ==
    {c \in [fn : {"getSuggestionsForParagraph"}, doc : {d}, paragraphPath : {0},
            sel : CursorsIn(d, 0), customRules : RuleLists, settings : Settings,
            apiKey : ApiKeys] :
        /\ c.settings.localFallbacks \/ c.customRules = <<>>
        /\ c.settings.povPropagation \/ c.apiKey = ""
        /\ c.customRules = <<>> \/ c.apiKey = ""}

PassCalls == UNION {PassCallsOn(d) : d \in FnDocs}

\* A block, an empty block and a block: the table of text nodes that starts
\* at the first one has an empty node in the middle.
DocEmptyMiddle ==
    <<<<TextNode(he, FALSE)>>, <<TextNode(<<>>, FALSE)>>, <<TextNode(<<"i", "t">>, FALSE)>>>>

MapDocs == FnDocs \cup {DocEmptyMiddle}

\* The length of all the text from block b of d on.
TableLength(d, b) == Len(Concat([i \in 1..Len(NodeTexts(d, b)) |-> NodeTexts(d, b)[i].text]))

\* The calls of findPathAndOffset over the table of d: every offset of the
\* table and the first one past it.
MapCallsOn(d) ==
    {[fn |-> "findPathAndOffset", doc |-> d, absOffset |-> o, first |-> NoPoint,
      again |-> FALSE] : o \in 0..(TableLength(d, 0) + 1)}

MapCalls == UNION {MapCallsOn(d) : d \in MapDocs}

\* Texts handed to the repeated-word rule.
RepeatTexts ==
    {<<"t", "h", "e", " ", "t", "h", "e", " ", "r", "e", "s", "t">>,
     <<"h", "e", " ", " ", "h", "e">>,
     <<"t", "h", "e", " ", "t", "h", "e", "y">>,
     <<"T", "h", "e", " ", "t", "h", "e">>,
     <<"a", " ", "a", " ", "a", " ", "a">>}

RepeatCalls ==
    {[fn |-> "repeatWord", text |-> x, before |-> x, applied |-> FALSE] : x \in RepeatTexts}

\* Texts and rule lists handed to getLocalGrammarSuggestions.
LocalTexts ==
    {<<"i", "t", " ", "w", "e", "r", "e", " ", " ", "s", "a", "w">>,
     <<"h", "e", " ", "S", "a", "w">>}

LocalRuleLists ==
    RuleLists \cup
        {<<InvalidRule>>,
         <<WordRule(<<"s", "a", "w">>, <<"m", "e", "t">>), InvalidRule,
           LiteralRule(<<" ", " ">>, <<>>)>>}

LocalCalls ==
    {[fn |-> "getLocalGrammarSuggestions", text |-> x, customRules |-> r] :
        x \in LocalTexts, r \in LocalRuleLists}

\* Documents handed to inferTargetPOV without an API key: a block with two
\* pronouns around an even gap, a block of two text nodes, and a block
\* followed by another block.
DocEvenGap ==
    <<<<TextNode(<<"h", "e", " ", " ", "s", "h", "e">>, FALSE)>>>>

DocPronounNodes ==
    <<<<TextNode(<<"t", "h", "e", "y", " ">>, FALSE), TextNode(<<"x", " ", "h", "i", "s">>, TRUE)>>>>

InferDocs == {DocEvenGap, DocPronounNodes, DocTwoBlocks}

\* The cursors of a call of inferTargetPOV on block 0 of d: every point of
\* every text node of the block, and a point whose path names a text node
\* the block no longer has (the selection was captured before an edit
\* merged the node away).
InferCursorsIn(d) ==
    UNION {{Point(<<0, s - 1>>, o) : o \in 0..Len(d[1][s].text)} : s \in DOMAIN d[1]}
        \cup {Point(<<0, Len(d[1])>>, 0)}

InferCalls ==
    UNION {{[fn |-> "inferTargetPOV", doc |-> d, sel |-> Collapsed(c)] :
               c \in InferCursorsIn(d)} : d \in InferDocs}

\* Most presses of Shift+Tab in one call.
MaxPresses == 4

\* A grammar suggestion over [from, to) of the text node at path.
SkipEntry(id, path, from, to) == Suggestion(id, "grammar", path, from, to, <<>>)

\* Lists [...suggestions, ...povSuggestions] for repeated skips: separate
\* ranges with one in another text node, nested ranges, and ranges with
\* the same start in an order that is not sorted.
SkipLists ==
    {<<SkipEntry(1, <<0, 0>>, 0, 3), SkipEntry(2, <<0, 1>>, 0, 2),
       SkipEntry(3, <<0, 0>>, 4, 6), SkipEntry(4, <<0, 0>>, 7, 10)>>,
     <<SkipEntry(1, <<0, 0>>, 0, 10), SkipEntry(2, <<0, 0>>, 4, 6)>>,
     <<SkipEntry(1, <<0, 0>>, 7, 10), SkipEntry(2, <<0, 0>>, 4, 9),
       SkipEntry(3, <<0, 0>>, 4, 6)>>}

\* Repeated skips: the lists stay as they are, the cursor starts collapsed
\* at any offset of the text node [0, 0]; `from` is the selection before the
\* last press.
SkipCalls ==
    {[fn |-> "skip", all |-> l, sel |-> Collapsed(Point(<<0, 0>>, o)),
      from |-> NoSelection, presses |-> 0] : l \in SkipLists, o \in 0..10}

FnCalls ==
    MatchCaseCalls \cup POVCalls \cup PassCalls \cup MapCalls \cup RepeatCalls
        \cup LocalCalls \cup InferCalls \cup SkipCalls

\* No pass has resolved yet.
NoOutput == [result |-> <<>>, overtaken |-> FALSE, differs |-> FALSE]

\* No edit has run yet.
NoEdit == [kind |-> "none"]

\* No run of handleAddRule is suspended.
NoJob == [none |-> TRUE]

\* The application variables when only a function is exercised.
AppIdle ==
    /\ doc = <<>>
    /\ selection = NoSelection
    /\ suggestions = <<>>
    /\ povSuggestions = <<>>
    /\ loading = FALSE
    /\ passes = <<>>
    /\ debounceRef = 0
    /\ ruleState = <<>>
    /\ adding = NoJob
    /\ lastOutput = NoOutput
    /\ computedAt = 0
    /\ lastEdit = NoEdit
    /\ edits = 0
    /\ started = 0

FnInit ==
    /\ AppIdle
    /\ call \in FnCalls
    /\ ret = Pending

\* matchCase(desired, original) is called and returns.
CallMatchCase ==
    /\ call.fn = "matchCase"
    /\ ret = Pending
    /\ ret' = Returned(matchCase(call.desired, call.original))
    /\ UNCHANGED <<call, appVars>>

\* getPOVPropagationSuggestions(text, path, target) is called and returns.
CallGetPOVPropagationSuggestions ==
    /\ call.fn = "getPOVPropagationSuggestions"
    /\ ret = Pending
    /\ ret' = Returned(getPOVPropagationSuggestions(call.text, <<0, 0>>, call.target, 1))
    /\ UNCHANGED <<call, appVars>>

\* Every returned suggestion is applied to the text (the batch edit on a
\* document that holds just this text), which gives the next call's text.
AlignText ==
    /\ call.fn = "getPOVPropagationSuggestions"
    /\ ret /= Pending
    /\ ~call.aligned
    /\ LET d == <<<<TextNode(call.text, FALSE)>>>>
           done == applyAllEdit(d, NoSelection, ret.value)
       IN  call' = [call EXCEPT !.text = NodeString(done.st.doc, 0), !.aligned = TRUE,
                               !.applied = Len(done.seen)]
    /\ ret' = Pending
    /\ UNCHANGED appVars

\* getSuggestionsForParagraph is called: it reads the block text, returns
\* the empty list for a blank block and otherwise awaits the grammar service.
CallGetSuggestionsForParagraph ==
    /\ call.fn = "getSuggestionsForParagraph"
    /\ ret = Pending
    /\ LET p == passStart(call.doc, call.paragraphPath, call.sel, call.customRules,
                          call.settings, call.apiKey)
       IN  ret' = Returned(IF isBlank(p.paragraphText) THEN [p EXCEPT !.pc = "done"] ELSE p)
    /\ UNCHANGED <<call, appVars>>

\* The grammar service answers the suspended call.
FnGrammarAnswer ==
    /\ call.fn = "getSuggestionsForParagraph"
    /\ ret /= Pending
    /\ ret.value.pc = "lt"
    /\ \E a \in LTAnswers(Len(ret.value.paragraphText)) :
           ret' = Returned(passAfterLT(call.doc, ret.value, a))
    /\ UNCHANGED <<call, appVars>>

\* The category collaborator answers the suspended call.
FnInferAnswer ==
    /\ call.fn = "getSuggestionsForParagraph"
    /\ ret /= Pending
    /\ ret.value.pc = "infer"
    /\ \E a \in InferAnswers : ret' = Returned(passAfterInfer(ret.value, a))
    /\ UNCHANGED <<call, appVars>>

\* The coreference collaborator answers the suspended call.
FnCorefAnswer ==
    /\ call.fn = "getSuggestionsForParagraph"
    /\ ret /= Pending
    /\ ret.value.pc = "coref"
    /\ \E a \in CorefAnswers : ret' = Returned(passAfterCoref(ret.value, a))
    /\ UNCHANGED <<call, appVars>>

\* Align Paragraph is pressed on the list a pass returned, when the list
\* holds suggestions of POV propagation that share an id (the fragments of
\* one match in several text nodes): applyAllPOVSuggestions runs over them,
\* and the block's text after the edit is kept beside the pass's result.
AlignParagraph ==
    /\ call.fn = "getSuggestionsForParagraph"
    /\ ret /= Pending
    /\ ret.state = "returned"
    /\ ret.value.pc = "done"
    /\ LET pov == gated(ret.value.result)
       IN  /\ \E i, j \in DOMAIN pov : i /= j /\ pov[i].id = pov[j].id
           /\ ret' = [state |-> "aligned", value |-> ret.value,
                      after |-> NodeString(applyAllEdit(call.doc, call.sel, pov).st.doc,
                                           call.paragraphPath)]
    /\ UNCHANGED <<call, appVars>>

\* findPathAndOffset(absOffset) is called over the table of text nodes from
\* block 0 on and returns.
CallFindPathAndOffset ==
    /\ call.fn = "findPathAndOffset"
    /\ ret = Pending
    /\ ret' = Returned(findPathAndOffset(paragraphTextNodes(call.doc, 0), call.absOffset))
    /\ UNCHANGED <<call, appVars>>

\* The returned point is taken as the cursor and converted back to a linear
\* offset by the loop of inferTargetPOV; the offset is the next call's
\* argument.
CursorToAbsolute ==
    /\ call.fn = "findPathAndOffset"
    /\ ret /= Pending
    /\ ~call.again
    /\ ret.value /= NoPoint
    /\ call' = [call EXCEPT !.absOffset = absoluteOffset(call.doc, 0, ret.value),
                            !.first = ret.value, !.again = TRUE]
    /\ ret' = Pending
    /\ UNCHANGED appVars

\* The repeated-word rule runs over a text node that holds call.text.
CallRepeatWord ==
    /\ call.fn = "repeatWord"
    /\ ret = Pending
    /\ ret' = Returned(repeatWordSuggestions(call.text, <<0, 0>>, 1))
    /\ UNCHANGED <<call, appVars>>

\* The first suggestion of the rule is applied to a document that holds
\* just this text.
ApplyRepeatWord ==
    /\ call.fn = "repeatWord"
    /\ ret /= Pending
    /\ ~call.applied
    /\ ret.value /= <<>>
    /\ LET d == <<<<TextNode(call.text, FALSE)>>>>
           st == applySuggestionEdit(d, ret.value[1])
       IN  call' = [call EXCEPT !.text = NodeString(st.doc, 0), !.applied = TRUE]
    /\ ret' = Pending
    /\ UNCHANGED appVars

\* getLocalGrammarSuggestions(text, customRules) is called and returns.
CallGetLocalGrammarSuggestions ==
    /\ call.fn = "getLocalGrammarSuggestions"
    /\ ret = Pending
    /\ ret' = Returned(getLocalGrammarSuggestions(call.text, call.customRules))
    /\ UNCHANGED <<call, appVars>>

\* inferTargetPOV is called without an API key and returns; the linear
\* offset its loop computed is kept beside the returned category.
CallInferTargetPOV ==
    /\ call.fn = "inferTargetPOV"
    /\ ret = Pending
    /\ ret' = Returned([absolute |-> absoluteOffset(call.doc, 0, call.sel.anchor),
                        targetPOV |-> inferTargetPOV(call.doc, 0, call.sel, "", "fail")])
    /\ UNCHANGED <<call, appVars>>

\* Shift+Tab is pressed: when getSuggestionAtCursor returns a suggestion the
\* selection becomes the collapsed cursor at the end of its range.
PressShiftTab ==
    /\ call.fn = "skip"
    /\ call.presses < MaxPresses
    /\ LET s == getSuggestionAtCursor(call.sel, call.all)
       IN  /\ s /= NoSuggestion
           /\ call' = [call EXCEPT !.sel = Collapsed(Point(s.path, RangeEnd(s))),
                                   !.from = call.sel,
                                   !.presses = call.presses + 1]
    /\ UNCHANGED <<ret, appVars>>

FnNext ==
    \/ CallMatchCase
    \/ CallGetPOVPropagationSuggestions
    \/ AlignText
    \/ CallGetSuggestionsForParagraph
    \/ FnGrammarAnswer
    \/ FnInferAnswer
    \/ FnCorefAnswer
    \/ CallFindPathAndOffset
    \/ CursorToAbsolute
    \/ CallRepeatWord
    \/ ApplyRepeatWord
    \/ CallGetLocalGrammarSuggestions
    \/ CallInferTargetPOV
    \/ AlignParagraph
    \/ PressShiftTab

SpecFn == FnInit /\ [][FnNext]_vars

-----------------------------------------------------------------------------
(* Claims checked under SpecFn *)

PassReturned ==
    /\ call.fn = "getSuggestionsForParagraph"
    /\ ret /= Pending
    /\ ret.value.pc = "done"

\* Every match of the pass lies inside the text of the analysed block.
MatchesInsideBlock ==
    \A k \in DOMAIN ret.value.allMatches :
        ret.value.allMatches[k].offset + ret.value.allMatches[k].length
            <= Len(ret.value.paragraphText)

\* C1: every suggestion a pass returns lies inside the analysed block; the
\* text nodes of the blocks after it contribute no suggestion.  Stated for
\* the passes whose matches all lie inside the block's text, so that no
\* match reaches past the block by its own offsets.
C1_PassStaysInBlock ==
    (PassReturned /\ MatchesInsideBlock) =>
        \A i \in DOMAIN ret.value.result :
            ret.value.result[i].path[1] = call.paragraphPath

\* C2: the returned list is non-decreasing in structured start position
\* (segment order, then offset), and entries with equal start are
\* non-decreasing in range length.
C2_OutputSorted ==
    PassReturned =>
        \A i, j \in DOMAIN ret.value.result :
            i < j =>
                LET a == ret.value.result[i]
                    b == ret.value.result[j]
                IN  \/ pathCompare(a.path, b.path) < 0
                    \/ /\ a.path = b.path
                       /\ \/ RangeStart(a) < RangeStart(b)
                          \/ /\ RangeStart(a) = RangeStart(b)
                             /\ RangeEnd(a) - RangeStart(a) <= RangeEnd(b) - RangeStart(b)

SameKey(a, b) ==
    /\ a.path = b.path
    /\ RangeStart(a) = RangeStart(b)
    /\ RangeEnd(a) = RangeEnd(b)
    /\ a.replacement = b.replacement

\* Whether entry i of list is the first one with its key.
FirstWithKey(list, i) == \A k \in 1..(i - 1) : ~SameKey(list[k], list[i])

\* C3: the returned list holds no two suggestions with the same (path,
\* start, end, replacement); of the candidates that share a key exactly the
\* first in sorted order is kept, whatever their kind or id, and the kept
\* ones stay in sorted order.
C3_DedupeKeepsFirst ==
    PassReturned =>
        LET sorted == ret.value.sorted
            result == ret.value.result
            firsts == {i \in DOMAIN sorted : FirstWithKey(sorted, i)}
        IN  /\ \A i, j \in DOMAIN result : i /= j => ~SameKey(result[i], result[j])
            /\ Len(result) = Cardinality(firsts)
            /\ \A j \in DOMAIN result :
                   \E i \in firsts :
                       /\ sorted[i] = result[j]
                       /\ Cardinality({k \in firsts : k <= i}) = j

\* C3 witness: a candidate was removed in favour of an earlier one of
\* another kind and id.
C3_Witness ==
    /\ PassReturned
    /\ \E i, k \in DOMAIN ret.value.sorted :
           /\ k < i
           /\ SameKey(ret.value.sorted[k], ret.value.sorted[i])
           /\ ret.value.sorted[k].kind /= ret.value.sorted[i].kind
           /\ ret.value.sorted[k].id /= ret.value.sorted[i].id
    /\ Len(ret.value.result) >= 2

\* C9: once every suggestion of heuristic propagation towards a target has
\* been applied, propagation towards the same target returns nothing.
C9_PropagationIdempotent ==
    (call.fn = "getPOVPropagationSuggestions" /\ call.aligned /\ ret /= Pending)
        => ret.value = <<>>

\* C9 witness: the second run came back empty on a text that two or more
\* suggestions had rewritten.
C9_Witness ==
    /\ call.fn = "getPOVPropagationSuggestions"
    /\ call.aligned
    /\ call.applied >= 2
    /\ ret = Returned(<<>>)

HasLower(str) == \E i \in DOMAIN str : IsLower(str[i])

\* The first letter of str is an upper-case letter (characters that are not
\* letters are skipped).
FirstLetterIsUpper(str) ==
    \E i \in DOMAIN str :
        /\ IsUpper(str[i])
        /\ \A k \in 1..(i - 1) : ~IsLower(str[k]) /\ ~IsUpper(str[k])

Capitalized(str) == <<UpperChar(str[1])>> \o SubSeq(str, 2, Len(str))

\* C10: matchCase upper-cases the replacement for a fully upper-case
\* original, capitalizes it for an original whose first letter is
\* upper-case, and returns it unchanged otherwise.
C10_CasePreservation ==
    (call.fn = "matchCase" /\ ret /= Pending) =>
        ret.value = IF ~HasLower(call.original) THEN toUpperCase(call.desired)
                    ELSE IF FirstLetterIsUpper(call.original) THEN Capitalized(call.desired)
                    ELSE call.desired

\* The case-preservation rule: fully upper-case original, upper-case
\* replacement; capitalized original, capitalized replacement; otherwise the
\* replacement as given.
CasePreserved(desired, original) ==
    IF ~HasLower(original) THEN toUpperCase(desired)
    ELSE IF IsUpper(original[1]) THEN Capitalized(desired)
    ELSE desired

\* C11: every replacement of POV propagation is the table literal for the
\* token under the case-preservation rule: upper-case for a fully upper-case
\* token, capitalized for a capitalized token, the literal itself for a
\* lower-case token.  Stated for the heuristic source; the AI source calls
\* the same matchTokenCase.
C11_PropagationPreservesCase ==
    (call.fn = "getPOVPropagationSuggestions" /\ ~call.aligned /\ ret /= Pending) =>
        \A i \in DOMAIN ret.value :
            LET s == ret.value[i]
                token == slice(call.text, s.anchor, s.focus)
            IN  s.replacement =
                    CasePreserved(POV_MAP[call.target][toLowerCase(token)], token)

\* The indices of the table nodes that belong to the analysed block.
BlockNodes(nodes, b) == {i \in DOMAIN nodes : nodes[i].path[1] = b}

\* Whether linear offset o is the end of table node i and node i is not the
\* last one of block b.
AtBoundary(nodes, b, i, o) ==
    /\ i \in BlockNodes(nodes, b)
    /\ i + 1 \in BlockNodes(nodes, b)
    /\ nodes[i].end = o

\* The suggestions mapped from match k of the pass (they carry the k-th id).
FragmentsOf(k) == SelectSeq(ret.value.suggestions, LAMBDA s : s.id = k)

\* C12: a linear offset exactly at the end of a segment that is not the last
\* one maps to offset 0 of the following segment and never to the end of
\* the current one: findPathAndOffset returns that point, and a match of a
\* pass that starts there, of zero length or not, gets its position there.
C12_BoundaryMapsToNext ==
    /\ (call.fn = "findPathAndOffset" /\ ~call.again /\ ret /= Pending) =>
           LET nodes == paragraphTextNodes(call.doc, 0)
           IN  \A i \in DOMAIN nodes :
                   AtBoundary(nodes, 0, i, call.absOffset) =>
                       /\ ret.value /= NoPoint
                       /\ ret.value.offset = 0
                       /\ ret.value.path /= nodes[i].path
    /\ PassReturned =>
           \A k \in DOMAIN ret.value.allMatches :
               \A i \in DOMAIN ret.value.nodes :
                   AtBoundary(ret.value.nodes, call.paragraphPath, i,
                              ret.value.allMatches[k].offset) =>
                       /\ \E j \in DOMAIN FragmentsOf(k) :
                              /\ FragmentsOf(k)[j].path = ret.value.nodes[i + 1].path
                              /\ RangeStart(FragmentsOf(k)[j]) = 0
                       /\ \A j \in DOMAIN FragmentsOf(k) :
                              FragmentsOf(k)[j].path /= ret.value.nodes[i].path

\* Whether match m lies inside the text of the analysed block.
InsideBlock(m) == m.offset + m.length <= Len(ret.value.paragraphText)

\* C13: a match whose range is not fully inside the block's text yields no
\* suggestion at all, not even for the part of its range that is inside.
C13_OutOfRangeDropped ==
    PassReturned =>
        \A k \in DOMAIN ret.value.allMatches :
            ~InsideBlock(ret.value.allMatches[k]) => FragmentsOf(k) = <<>>

\* The linear start of segment i (1-based) of block b of d.
SegStart(d, b, i) == Len(Concat([j \in 1..(i - 1) |-> d[b + 1][j].text]))

SegEnd(d, b, i) == SegStart(d, b, i) + Len(d[b + 1][i].text)

\* The segments of block b of d that [from, to) meets in a non-empty range.
Meets(d, b, from, to) ==
    {i \in DOMAIN d[b + 1] : Max(from, SegStart(d, b, i)) < Min(to, SegEnd(d, b, i))}

\* Whether the list frs is the mapping of [from, to) over block b of d: one
\* fragment per segment met, in segment order, each the intersection in the
\* segment's own offsets, all with the same id.
IsMappingOf(frs, d, b, from, to) ==
    LET segs == Meets(d, b, from, to)
    IN  /\ Len(frs) = Cardinality(segs)
        /\ \A j \in DOMAIN frs :
               \E i \in segs :
                   /\ Cardinality({x \in segs : x <= i}) = j
                   /\ frs[j].path = <<b, i - 1>>
                   /\ frs[j].anchor = Max(from, SegStart(d, b, i)) - SegStart(d, b, i)
                   /\ frs[j].focus = Min(to, SegEnd(d, b, i)) - SegStart(d, b, i)
                   /\ frs[j].id = frs[1].id

\* Whether the fragments frs, read as linear ranges of block b of d, are
\* disjoint and cover [from, to) exactly.
CoversExactly(frs, d, b, from, to) ==
    LET lo(j) == SegStart(d, b, frs[j].path[2] + 1) + frs[j].anchor
        hi(j) == SegStart(d, b, frs[j].path[2] + 1) + frs[j].focus
    IN  IF frs = <<>> THEN from >= to
        ELSE /\ lo(1) = from
             /\ hi(Len(frs)) = to
             /\ \A j \in 1..(Len(frs) - 1) : hi(j) = lo(j + 1)
             /\ \A j \in DOMAIN frs : lo(j) < hi(j)

\* C14: a match with range [s, e) inside the block is mapped to exactly one
\* suggestion per segment that [s, e) meets, in segment order, with one id,
\* each the intersection in the segment's own offsets; the fragments are
\* disjoint and cover [s, e).
C14_OneFragmentPerSegment ==
    PassReturned =>
        \A k \in DOMAIN ret.value.allMatches :
            LET m == ret.value.allMatches[k]
            IN  InsideBlock(m) =>
                    /\ IsMappingOf(FragmentsOf(k), call.doc, call.paragraphPath,
                                   m.offset, m.offset + m.length)
                    /\ CoversExactly(FragmentsOf(k), call.doc, call.paragraphPath,
                                     m.offset, m.offset + m.length)

\* C14 witness: a match that lies inside the block was mapped to two
\* fragments in two segments.
C14_Witness ==
    /\ PassReturned
    /\ \E k \in DOMAIN ret.value.allMatches :
           /\ InsideBlock(ret.value.allMatches[k])
           /\ Len(FragmentsOf(k)) = 2
           /\ FragmentsOf(k)[1].path /= FragmentsOf(k)[2].path

\* C15: mapping a linear offset to a point, converting the point back to a
\* linear offset and mapping again gives the point of the first mapping.
C15_OffsetRoundTrip ==
    (call.fn = "findPathAndOffset" /\ call.again /\ ret /= Pending) =>
        ret.value = call.first

\* C15 witness: the round trip was made for an offset at the end of a text
\* node that an empty text node follows.
C15_Witness ==
    /\ call.fn = "findPathAndOffset"
    /\ call.again
    /\ ret /= Pending
    /\ call.doc = DocEmptyMiddle
    /\ call.first = [path |-> <<0, 0>>, offset |-> 2]
    /\ ret.value = call.first

\* C18: a suggestion of a match carries the match's first replacement
\* candidate, and a match without candidates yields no suggestion.
C18_FirstReplacementOrNone ==
    PassReturned =>
        \A k \in DOMAIN ret.value.allMatches :
            LET m == ret.value.allMatches[k]
            IN  IF m.replacements = <<>> THEN FragmentsOf(k) = <<>>
                ELSE \A j \in DOMAIN FragmentsOf(k) :
                         FragmentsOf(k)[j].replacement = m.replacements[1]

\* Whether a word of n letters stands at position i of text, followed by k
\* blanks and by the same word again.
RepeatedAt(text, i, n, k) ==
    /\ n >= 1 /\ k >= 1
    /\ i + 2 * n + k <= Len(text)
    /\ (i = 0 \/ ~IsWordChar(text[i]))
    /\ \A j \in (i + 1)..(i + n) : IsLetter(text[j])
    /\ \A j \in (i + n + 1)..(i + n + k) : IsSpace(text[j])
    /\ \A j \in 1..n : text[i + n + k + j] = text[i + j]
    /\ (i + 2 * n + k = Len(text) \/ ~IsWordChar(text[i + 2 * n + k + 1]))

\* C16: for a word followed by blanks and the same word, the repeated-word
\* rule suggests removing the blanks together with the second word, with an
\* empty replacement, so that applying the suggestion leaves the word once,
\* followed by what followed the second word.  Stated for the first such
\* occurrence of the text.
C16_RepeatWordRemovesBlanks ==
    /\ (call.fn = "repeatWord" /\ ~call.applied /\ ret /= Pending) =>
           \A i \in 0..Len(call.text), n, k \in 1..Len(call.text) :
               (/\ RepeatedAt(call.text, i, n, k)
                /\ \A h \in 0..(i - 1), n2, k2 \in 1..Len(call.text) :
                       ~RepeatedAt(call.text, h, n2, k2)) =>
                   \E j \in DOMAIN ret.value :
                       /\ RangeStart(ret.value[j]) = i + n
                       /\ RangeEnd(ret.value[j]) = i + 2 * n + k
                       /\ ret.value[j].replacement = <<>>
    /\ (call.fn = "repeatWord" /\ call.applied) =>
           \E i \in 0..Len(call.before), n, k \in 1..Len(call.before) :
               /\ RepeatedAt(call.before, i, n, k)
               /\ call.text = slice(call.before, 0, i + n)
                                 \o slice(call.before, i + 2 * n + k, Len(call.before))

\* Whether the returned list holds a suggestion with the key of s.
InResult(s) == \E j \in DOMAIN ret.value.result : SameKey(ret.value.result[j], s)

\* C17: when the grammar service fails, the pass goes on with zero matches
\* from it: the matches are those of the local and user rules alone, and the
\* returned list holds their suggestions and those of POV propagation.
C17_ServiceFailureIsEmpty ==
    (call.fn = "getSuggestionsForParagraph" /\ ret /= Pending /\ ~ret.value.ltOk) =>
        LET p == ret.value
            local == IF call.settings.localFallbacks
                     THEN getLocalGrammarSuggestions(p.paragraphText, call.customRules)
                     ELSE <<>>
        IN  /\ p.pc \in {"infer", "coref", "done"}
            /\ p.allMatches = local
            /\ p.suggestions = mapMatches(local, p.nodes, 1)
            /\ p.pc = "done" =>
                   /\ \A i \in DOMAIN p.suggestions : InResult(p.suggestions[i])
                   /\ (p.targetPOV /= NoPOV /\ call.apiKey = "") =>
                          LET pov == heuristicAll(p.nodes, p.targetPOV, p.nextId)
                          IN  \A i \in DOMAIN pov : InResult(pov[i])
                   /\ \A j \in DOMAIN p.result :
                          p.result[j].kind = "grammar" =>
                              \E i \in DOMAIN p.suggestions : p.suggestions[i] = p.result[j]

\* C17 witness: the grammar service failed and the pass returned a
\* suggestion of a user rule and one of POV propagation.
C17_Witness ==
    /\ PassReturned
    /\ ~ret.value.ltOk
    /\ call.customRules /= <<>>
    /\ \E j \in DOMAIN ret.value.result : ret.value.result[j].kind = "grammar"
    /\ \E j \in DOMAIN ret.value.result :
           ret.value.result[j].kind = "pov-pronoun-propagation"

\* The rules of the list whose pattern compiles.
ValidRules(rules) == SelectSeq(rules, LAMBDA r : r.pattern.type /= "invalid")

\* C19: getLocalGrammarSuggestions returns, for a list with malformed
\* rules, what it returns for the list without them: the matches of the core
\* rule, then those of every valid rule in order.
C19_MalformedRuleSkippedAlone ==
    (call.fn = "getLocalGrammarSuggestions" /\ ret /= Pending) =>
        /\ ret.value = getLocalGrammarSuggestions(call.text, ValidRules(call.customRules))
        /\ ret.value = itWereFrom(call.text, 0)
                         \o Concat([i \in DOMAIN ValidRules(call.customRules) |->
                                        ruleMatchesFrom(call.text, 0,
                                                        ValidRules(call.customRules)[i])])

\* C19 witness: a malformed rule stands between two valid ones, and the
\* result holds a match of the core rule and one of each valid rule.
C19_Witness ==
    /\ call.fn = "getLocalGrammarSuggestions"
    /\ ret /= Pending
    /\ Len(call.customRules) = 3
    /\ call.customRules[2] = InvalidRule
    /\ Len(ret.value) = 3

\* The category of the pronoun nearest to linear offset o of text, the
\* earliest one on ties; NoPOV when the text has no pronoun.
NearestCategory(text, o) ==
    LET ms == matchAll(text)
        gap(i) == IF o < ms[i].index THEN ms[i].index - o
                  ELSE IF o > ms[i].index + Len(ms[i].token)
                       THEN o - (ms[i].index + Len(ms[i].token))
                       ELSE 0
        best == {i \in DOMAIN ms : \A j \in DOMAIN ms : gap(i) < gap(j) \/ (gap(i) = gap(j) /\ i <= j)}
    IN  IF ms = <<>> THEN NoPOV
        ELSE CHOOSE p \in POV : \A i \in best : toLowerCase(ms[i].token) \in PRONOUNS[p]

\* Whether the category collaborator was asked and named no category (it
\* answered "unknown" or something else, or the call failed).
NoCategoryNamed ==
    PassReturned /\ ret.value.inferResult = "no category"

\* C20: when the category collaborator was asked and named no category,
\* the pass has no target and returns no suggestion of POV propagation.
C20_NoTargetWithoutCategory ==
    NoCategoryNamed =>
        /\ ret.value.targetPOV = NoPOV
        /\ \A j \in DOMAIN ret.value.result :
               ret.value.result[j].kind /= "pov-pronoun-propagation"

\* C20, amended: when the category collaborator was asked and named no
\* category, the target is the one of the nearest-pronoun heuristic, run
\* inline: the category of the pronoun nearest to the cursor, and none only
\* when the block has no pronoun.
C20_FallsBackToNearestPronoun ==
    NoCategoryNamed =>
        ret.value.targetPOV = NearestCategory(ret.value.paragraphText, ret.value.absolute)

\* C20 witness: the collaborator named no category, and the pass returned
\* suggestions of POV propagation towards the heuristic's target.
C20_Witness ==
    /\ NoCategoryNamed
    /\ ret.value.targetPOV /= NoPOV
    /\ \E j \in DOMAIN ret.value.result :
           ret.value.result[j].kind = "pov-pronoun-propagation"

\* The suggestions of POV propagation in the returned list.
ReturnedPov == gated(ret.value.result)

\* C21: when the coreference adapter answers successfully, the pass's
\* pov-alignment suggestions are exactly the adapter's replacements; a
\* pronoun the adapter left out, and every pronoun when it returns the empty
\* list, gets none.
C21_AdapterAnswerIsFinal ==
    (PassReturned /\ ret.value.coref = "answered") =>
        /\ \A j \in DOMAIN ReturnedPov :
               \E i \in DOMAIN ret.value.fromAI :
                   SameKey(ReturnedPov[j], ret.value.fromAI[i])
        /\ \A i \in DOMAIN ret.value.fromAI : InResult(ret.value.fromAI[i])

\* inferTargetPOV has returned.
InferReturned == call.fn = "inferTargetPOV" /\ ret /= Pending

\* The linear offset of the cursor of the call in block 0.
CursorLinear ==
    SegStart(call.doc, 0, call.sel.anchor.path[2] + 1) + call.sel.anchor.offset

\* The distance of linear offset o from pronoun match m: 0 inside the match
\* and at its boundaries, else the gap to the nearer boundary.
Gap(m, o) ==
    IF o < m.index THEN m.index - o
    ELSE IF o > m.index + Len(m.token) THEN o - (m.index + Len(m.token))
    ELSE 0

LinearStart(s) == SegStart(call.doc, 0, s.path[2] + 1) + RangeStart(s)

LinearEnd(s) == SegStart(call.doc, 0, s.path[2] + 1) + RangeEnd(s)

\* C27: when the applied suggestions are the fragments of one match that
\* spans several text nodes (they share one id), applying all of them gives
\* the block text in which the match's whole linear range is replaced once:
\* the replacement appears exactly once.
C27_FragmentsReplaceOnce ==
    (PassReturned /\ ret.state = "aligned") =>
        LET pov == ReturnedPov
            text == NodeString(call.doc, 0)
            lo == CHOOSE x \in {LinearStart(pov[i]) : i \in DOMAIN pov} :
                      \A i \in DOMAIN pov : x <= LinearStart(pov[i])
            hi == CHOOSE x \in {LinearEnd(pov[i]) : i \in DOMAIN pov} :
                      \A i \in DOMAIN pov : x >= LinearEnd(pov[i])
        IN  (\A i \in DOMAIN pov : /\ pov[i].id = pov[1].id
                                    /\ pov[i].replacement = pov[1].replacement)
                => ret.after = slice(text, 0, lo) \o pov[1].replacement
                                   \o slice(text, hi, Len(text))

\* The suggestions of the call's lists in the cursor's text node.
InSegment == {i \in DOMAIN call.all : call.all[i].path = call.sel.anchor.path}

\* Those of them that start at or after offset o.
StartingFrom(o) == {i \in InSegment : RangeStart(call.all[i]) >= o}

\* Whether one more press leaves the cursor where it is.
Settled ==
    LET s == getSuggestionAtCursor(call.sel, call.all)
    IN  s = NoSuggestion \/ Collapsed(Point(s.path, RangeEnd(s))) = call.sel

\* C30: with the lists unchanged, a press of Shift+Tab from a cursor at or
\* before which some suggestion of its text node starts moves the cursor
\* strictly forward; a press from a cursor after every start puts it at the
\* end of a suggestion with the greatest start; and after as many presses
\* as the text node has suggestions, plus one, further presses do not move
\* the cursor.
C30_SkipReachesFixedCursor ==
    (call.fn = "skip" /\ call.presses >= 1) =>
        /\ StartingFrom(call.from.anchor.offset) /= {}
               => call.sel.anchor.offset > call.from.anchor.offset
        /\ StartingFrom(call.from.anchor.offset) = {}
               => \E i \in InSegment :
                      /\ \A j \in InSegment :
                             RangeStart(call.all[i]) >= RangeStart(call.all[j])
                      /\ call.sel.anchor.offset = RangeEnd(call.all[i])
        /\ call.presses >= Cardinality(InSegment) + 1 => Settled

\* C30 witness: the text node has three suggestions, Shift+Tab has been
\* pressed four times, and the last press left the cursor at the end of the
\* last suggestion.
C30_Witness ==
    /\ call.fn = "skip"
    /\ Cardinality(InSegment) = 3
    /\ call.presses = 4
    /\ call.sel = call.from
    /\ call.sel.anchor.offset = 10

-----------------------------------------------------------------------------
(* The application: the App component around the editor.  Spec is the      *)
(* state machine of its editor handlers, in which the rule form is left    *)
(* alone; SpecRules is the state machine of the rule form beside the       *)
(* analysis passes.  The rule settings and the API key keep the values of  *)
(* useState's initial arguments.                                            *)

\* useState([]) for customRules
InitialRules == <<>>

\* useState({... povPropagation: true, localFallbacks: true})
InitialSettings == [povPropagation |-> TRUE, localFallbacks |-> TRUE]

\* useState(import.meta.env.VITE_GEMINI_API_KEY || "") without the variable
InitialApiKey == ""

\* initialValue, shortened: two paragraphs of one text node each, with
\* pronouns of two categories in the first one.
initialValue ==
    <<<<TextNode(<<"s", "h", "e", " ", "h", "e", " ", "h", "i", "s">>, FALSE)>>,
      <<TextNode(<<"s", "h", "e">>, FALSE)>>>>

\* The React state and the passes in flight that recomputeSuggestions works
\* on, as one record; customRules is the list its closure holds.
View ==
    [suggestions |-> suggestions, povSuggestions |-> povSuggestions,
     loading |-> loading, passes |-> passes, lastOutput |-> lastOutput,
     computedAt |-> computedAt, started |-> started, customRules |-> ruleState]

\* The passes in flight once the one at index i has resolved: it is gone,
\* and the ones started before it have been overtaken.
afterResolve(inFlight, i) ==
    [j \in 1..(Len(inFlight) - 1) |->
        IF j < i THEN [inFlight[j] EXCEPT !.overtaken = TRUE] ELSE inFlight[j + 1]]

\* A continuation that adds the pass's list to the lists on screen instead
\* of replacing them.
recomputeResolvedMerging(v, i, all, version) ==
    [v EXCEPT !.suggestions = v.suggestions \o immediate(all),
              !.povSuggestions = v.povSuggestions \o gated(all),
              !.loading = FALSE,
              !.passes = afterResolve(v.passes, i),
              !.lastOutput = [result |-> all, overtaken |-> v.passes[i].overtaken,
                              differs |-> all /= v.lastOutput.result],
              !.computedAt = version]

\* recomputeSuggestions after its await: the pass at index i of v.passes
\* returned `all` while the document had seen `version` edits.
recomputeResolved(v, i, all, version) ==
    [v EXCEPT !.suggestions = immediate(all),
              !.povSuggestions = gated(all),
              !.loading = FALSE,
              !.passes = afterResolve(v.passes, i),
              !.lastOutput = [result |-> all, overtaken |-> v.passes[i].overtaken,
                              differs |-> all /= v.lastOutput.result],
              !.computedAt = version]

\* Editor.above(editor, {at: sel, match: isParagraph}) finds a paragraph.
paragraphEntry(d, sel) ==
    /\ sel.anchor.path[1] = sel.focus.path[1]
    /\ sel.anchor.path[1] < Len(d)

\* setSuggestions([]); setPovSuggestions([]) of the early returns.
cleared(v, version) ==
    [v EXCEPT !.suggestions = <<>>, !.povSuggestions = <<>>,
              !.lastOutput = [result |-> <<>>, overtaken |-> FALSE,
                              differs |-> v.lastOutput.result /= <<>>],
              !.computedAt = version]

\* recomputeSuggestions up to its await, on document d with selection sel:
\* without a selection or a paragraph the lists are cleared; a selection
\* whose node is gone makes Editor.above throw and nothing is set; otherwise
\* a pass starts.  A pass over a blank paragraph returns without awaiting
\* anything, so it resolves before any other handler runs.
recomputeSuggestions(v, d, sel, origin, version) ==
    IF sel = NoSelection THEN cleared(v, version)
    ELSE IF ~HasPath(d, sel.anchor.path) \/ ~HasPath(d, sel.focus.path) THEN v
    ELSE IF ~paragraphEntry(d, sel) THEN cleared(v, version)
    ELSE LET p == passStart(d, sel.anchor.path[1], sel, v.customRules, InitialSettings,
                            InitialApiKey)
             begun == [v EXCEPT !.loading = TRUE,
                                  !.started = v.started + 1,
                                  !.passes = Append(v.passes,
                                                    [pass |-> p, origin |-> origin,
                                                     version |-> version,
                                                     overtaken |-> FALSE])]
         IN  IF isBlank(p.paragraphText)
             THEN recomputeResolved(begun, Len(begun.passes), <<>>, version)
             ELSE begun

\* The next values of the variables of View.
SetView(v) ==
    \E w \in {v} :
        /\ suggestions' = w.suggestions
        /\ povSuggestions' = w.povSuggestions
        /\ loading' = w.loading
        /\ passes' = w.passes
        /\ lastOutput' = w.lastOutput
        /\ computedAt' = w.computedAt
        /\ started' = w.started

\* Most document edits in one behaviour.
MaxEdits == 2

\* Most analysis passes in flight at once.
MaxPasses == 2

\* Most analysis passes started in one behaviour.
MaxStarted == 3

\* A handler that may start a pass can run.
MayStart == Len(passes) < MaxPasses /\ started < MaxStarted

\* The offsets a click puts the caret at.
ClickOffsets == {0, 5}

\* The selections the user makes in document d: a caret in a text node, or
\* the first word of the first text node selected.
UserSelections(d) ==
    UNION {{Collapsed(Point(<<b, 0>>, o)) :
                o \in {x \in ClickOffsets : x <= Len(d[b + 1][1].text)}} :
           b \in {0}}

\* What the grammar service answers to a pass of the application.
AppLTAnswers == {Answer(<<>>), Answer(<<Match(0, 3, <<<<"S", "h", "e">>>>)>>)}

\* The timer that waits without having been cleared.
scheduleWithoutClear(pending) == pending + 1

\* scheduleRecompute and the editor's onChange: the timer debounceRef holds
\* is cleared when it is pending, and a new one is set.  pending is the
\* number of timers that wait.
scheduleRecompute(pending) == (IF pending > 0 THEN pending - 1 ELSE 0) + 1

Init ==
    /\ doc = initialValue
    /\ selection = NoSelection
    /\ suggestions = <<>>
    /\ povSuggestions = <<>>
    /\ loading = FALSE
    /\ passes = <<>>
    /\ debounceRef = 0
    /\ ruleState = InitialRules
    /\ adding = NoJob
    /\ lastOutput = NoOutput
    /\ computedAt = 0
    /\ lastEdit = NoEdit
    /\ edits = 0
    /\ started = 0
    /\ call = [fn |-> "none"]
    /\ ret = Pending

\* The user moves the caret or selects text: onSelect (scheduleRecompute)
\* and the editor's onChange both restart the debounce timer.
Select ==
    /\ \E sel \in UserSelections(doc) :
           /\ sel /= selection
           /\ selection' = sel
    /\ debounceRef' = scheduleRecompute(debounceRef)
    /\ UNCHANGED <<doc, suggestions, povSuggestions, loading, passes, lastOutput,
                   computedAt, lastEdit, edits, started, call, ret, ruleState, adding>>

\* The timer's callback with a deselect before the pass starts.
DebounceFireDeselecting ==
    /\ debounceRef > 0
    /\ MayStart
    /\ debounceRef' = debounceRef - 1
    /\ selection' = NoSelection
    /\ SetView(recomputeSuggestions(View, doc, selection, "timer", edits))
    /\ UNCHANGED <<doc, lastEdit, edits, call, ret, ruleState, adding>>

\* The debounce timer fires and calls recomputeSuggestions.
DebounceFire ==
    /\ debounceRef > 0
    /\ MayStart
    /\ debounceRef' = debounceRef - 1
    /\ SetView(recomputeSuggestions(View, doc, selection, "timer", edits))
    /\ UNCHANGED <<doc, selection, lastEdit, edits, call, ret, ruleState, adding>>

\* The grammar service answers pass i.  The pass goes on to its next await
\* or returns; when it returns, recomputeSuggestions resumes with its list.
GrammarAnswer ==
    /\ \E i \in DOMAIN passes, a \in AppLTAnswers :
           /\ passes[i].pass.pc = "lt"
           /\ \E p \in {passAfterLT(doc, passes[i].pass, a)} :
                  IF p.pc = "done"
                  THEN SetView(recomputeResolved(View, i, p.result, edits))
                  ELSE /\ passes' = [passes EXCEPT ![i].pass = p]
                       /\ UNCHANGED <<suggestions, povSuggestions, loading, lastOutput,
                                      computedAt, started>>
    /\ UNCHANGED <<doc, selection, debounceRef, lastEdit, edits, call, ret, ruleState, adding>>

\* The text an edit of s finds inside s's range in document d.
textInRange(d, s) ==
    IF HasPath(d, s.path) THEN slice(TextAt(d, s.path), RangeStart(s), RangeEnd(s))
    ELSE TypeError

\* The log entry of an edit.
EditLog(kind, via, order, seen) ==
    [kind |-> kind, via |-> via, prev |-> lastEdit.kind, before |-> doc,
     order |-> order, seen |-> seen,
     stale |-> computedAt < edits,
     freshPending |-> \E i \in DOMAIN passes :
                          /\ passes[i].origin = "applySuggestion"
                          /\ passes[i].version = edits]

\* applySuggestion(s): the range is selected and replaced, then
\* recomputeSuggestions is called; the change restarts the debounce timer
\* through onChange.  When the edit throws, the selection stays on the range
\* and recomputeSuggestions is not reached.
applySuggestion(s, via) ==
    \E st \in {applySuggestionEdit(doc, s)} :
        /\ doc' = st.doc
        /\ selection' = st.sel
        /\ debounceRef' = scheduleRecompute(debounceRef)
        /\ IF st.threw
           THEN UNCHANGED <<suggestions, povSuggestions, loading, passes, lastOutput,
                            computedAt, lastEdit, edits, started>>
           ELSE /\ edits' = edits + 1
                /\ lastEdit' = EditLog("one", via, <<s>>, <<textInRange(doc, s)>>)
                /\ SetView(recomputeSuggestions(View, st.doc, st.sel, "applySuggestion",
                                                edits + 1))
        /\ UNCHANGED <<call, ret, ruleState, adding>>

\* A click on the Apply button of one of the first ten immediate
\* suggestions.
ApplyClick ==
    /\ edits < MaxEdits
    /\ MayStart
    /\ \E i \in 1..Min(Len(suggestions), 10) : applySuggestion(suggestions[i], "button")

\* Tab: the suggestion getSuggestionAtCursor returns is applied.
Tab ==
    /\ edits < MaxEdits
    /\ MayStart
    /\ LET s == getSuggestionAtCursor(selection, suggestions \o povSuggestions)
       IN  /\ s /= NoSuggestion
           /\ applySuggestion(s, "tab")

\* Shift+Tab that also takes the skipped suggestion off its list.
ShiftTabDismissing ==
    /\ LET s == getSuggestionAtCursor(selection, suggestions \o povSuggestions)
       IN  /\ s /= NoSuggestion
           /\ selection' = Collapsed(Point(s.path, RangeEnd(s)))
           /\ suggestions' = SelectSeq(suggestions, LAMBDA x : x /= s)
           /\ povSuggestions' = SelectSeq(povSuggestions, LAMBDA x : x /= s)
    /\ selection' /= selection
    /\ debounceRef' = scheduleRecompute(debounceRef)
    /\ UNCHANGED <<doc, loading, passes, lastOutput, computedAt, lastEdit, edits,
                   started, call, ret, ruleState, adding>>

\* Shift+Tab: the caret moves to the end of the suggestion
\* getSuggestionAtCursor returns.
ShiftTab ==
    /\ LET s == getSuggestionAtCursor(selection, suggestions \o povSuggestions)
       IN  /\ s /= NoSuggestion
           /\ selection' = Collapsed(Point(s.path, RangeEnd(s)))
    /\ selection' /= selection
    /\ debounceRef' = scheduleRecompute(debounceRef)
    /\ UNCHANGED <<doc, suggestions, povSuggestions, loading, passes, lastOutput,
                   computedAt, lastEdit, edits, started, call, ret, ruleState, adding>>

\* A click on "Align Paragraph": applyAllPOVSuggestions.  An edit that
\* throws ends the loop with the edits before it applied, and
\* recomputeSuggestions is not reached.
ApplyAll ==
    /\ edits < MaxEdits
    /\ MayStart
    /\ povSuggestions /= <<>>
    /\ \E done \in {applyAllEdit(doc, selection, povSuggestions)} :
           /\ doc' = done.st.doc
           /\ selection' = done.st.sel
           /\ debounceRef' = scheduleRecompute(debounceRef)
           /\ edits' = edits + 1
           /\ lastEdit' = EditLog("all", "button", done.order, done.seen)
           /\ IF done.st.threw
              THEN UNCHANGED <<suggestions, povSuggestions, loading, passes, lastOutput,
                               computedAt, started>>
              ELSE SetView(recomputeSuggestions(View, done.st.doc, done.st.sel,
                                                "applyAllPOVSuggestions", edits + 1))
    /\ UNCHANGED <<call, ret, ruleState, adding>>

Next ==
    \/ Select
    \/ DebounceFire
    \/ GrammarAnswer
    \/ ApplyClick
    \/ Tab
    \/ ShiftTab
    \/ ApplyAll

Spec == Init /\ [][Next]_vars

-----------------------------------------------------------------------------
(* The rule form.  SpecRules is the state machine of its two handlers      *)
(* beside the clicks that place the cursor and the passes the handlers      *)
(* start; a handler calls the recomputeSuggestions of the render it was     *)
(* created in, whose closure holds that render's customRules.               *)

\* Most rules in the list.
MaxRules == 1

\* The rule the form makes of the intent "replace his with its" without an
\* API key: pattern \bhis\b, replacement "its".
AddedRule == WordRule(<<"h", "i", "s">>, <<"i", "t", "s">>)

\* filter((_, k) => k !== i) on a sequence, i 1-based
without(list, i) == [k \in 1..(Len(list) - 1) |-> IF k < i THEN list[k] ELSE list[k + 1]]

\* A click on the form's button: handleAddRule runs up to its await; the
\* button is disabled until it ends.  The run keeps the closure of the
\* render it was created in.
handleAddRule ==
    /\ adding = NoJob
    /\ Len(ruleState) < MaxRules
    /\ adding' = [closure |-> ruleState]
    /\ UNCHANGED <<doc, selection, suggestions, povSuggestions, loading, passes,
                   debounceRef, ruleState, lastOutput, computedAt, lastEdit, edits,
                   started, call, ret>>

\* handleAddRule resumes: setCustomRules((prev) => [...prev, newRule]), and
\* in the finally block the closure's recomputeSuggestions() is called.
handleAddRuleResume ==
    /\ adding /= NoJob
    /\ MayStart
    /\ ruleState' = Append(ruleState, AddedRule)
    /\ adding' = NoJob
    /\ SetView(recomputeSuggestions([View EXCEPT !.customRules = adding.closure],
                                    doc, selection, "handleAddRule", edits))
    /\ UNCHANGED <<doc, selection, debounceRef, lastEdit, edits, call, ret>>

\* A click on the x of rule i: removeRule(rule.id), which filters the rule
\* out and calls the recomputeSuggestions of the current render.
removeRule ==
    /\ MayStart
    /\ \E i \in DOMAIN ruleState : ruleState' = without(ruleState, i)
    /\ SetView(recomputeSuggestions(View, doc, selection, "removeRule", edits))
    /\ UNCHANGED <<doc, selection, debounceRef, adding, lastEdit, edits, call, ret>>

NextRules ==
    \/ Select
    \/ GrammarAnswer
    \/ handleAddRule
    \/ handleAddRuleResume
    \/ removeRule

SpecRules == Init /\ [][NextRules]_vars

\* C28: the pass that handleAddRule or removeRule starts right after
\* changing the rule list runs with the list as the handler has just set it.
C28_RulePassUsesUpdatedList ==
    [][(/\ Len(passes') = Len(passes) + 1
        /\ passes'[Len(passes')].origin \in {"handleAddRule", "removeRule"})
           => passes'[Len(passes')].pass.customRules = ruleState']_vars

-----------------------------------------------------------------------------
(* Claims checked under Spec *)

\* No two ranges of list in one text node share a character.
NonOverlapping(list) ==
    \A i, j \in DOMAIN list :
        (i < j /\ list[i].path = list[j].path) =>
            \/ RangeEnd(list[i]) <= RangeStart(list[j])
            \/ RangeEnd(list[j]) <= RangeStart(list[i])

\* a lies strictly after b in document order.
StrictlyAfter(a, b) ==
    \/ a.path[1] > b.path[1]
    \/ a.path[1] = b.path[1] /\ a.path[2] > b.path[2]
    \/ a.path = b.path /\ RangeStart(a) > RangeStart(b)

\* Whether applying s changes the length of the text.
ChangesLength(s) == Len(s.replacement) /= RangeEnd(s) - RangeStart(s)

\* C4: applyAllPOVSuggestions applies a batch of pairwise non-overlapping
\* suggestions in strictly descending structured position, and every edit
\* finds inside its range the text that was there when the batch began: no
\* edit applied before it has shifted its coordinates.
C4_DescendingKeepsCoordinates ==
    (lastEdit.kind = "all" /\ NonOverlapping(lastEdit.order)) =>
        /\ Len(lastEdit.seen) = Len(lastEdit.order)
        /\ \A i, j \in DOMAIN lastEdit.order :
               i < j => StrictlyAfter(lastEdit.order[i], lastEdit.order[j])
        /\ \A k \in DOMAIN lastEdit.order :
               lastEdit.seen[k] = textInRange(lastEdit.before, lastEdit.order[k])

\* C4 witness: a batch with two edits in one text node, the one nearer the
\* start changing the length of the text.
C4_Witness ==
    /\ lastEdit.kind = "all"
    /\ NonOverlapping(lastEdit.order)
    /\ \E i, j \in DOMAIN lastEdit.order :
           /\ i < j
           /\ lastEdit.order[i].path = lastEdit.order[j].path
           /\ ChangesLength(lastEdit.order[j])

RECURSIVE replaceIndependently(_, _, _)
\* text with the range of every suggestion of the set todo replaced, the
\* ranges read in the coordinates of text: the pieces of text between the
\* ranges, from position pos on, joined by the replacements.
replaceIndependently(text, todo, pos) ==
    IF todo = {} THEN slice(text, pos, Len(text))
    ELSE LET s == CHOOSE x \in todo : \A y \in todo : RangeStart(x) <= RangeStart(y)
         IN  slice(text, pos, RangeStart(s)) \o s.replacement
             \o replaceIndependently(text, todo \ {s}, RangeEnd(s))

\* Every suggestion of list lies in the same text node.
OneSegment(list) == \A i, j \in DOMAIN list : list[i].path = list[j].path

\* C5: after applyAllPOVSuggestions on a batch of pairwise non-overlapping
\* suggestions in one text node, the node's text is the original text with
\* every range, read in the original coordinates, replaced independently.
C5_BatchEqualsIndependent ==
    (/\ lastEdit.kind = "all"
     /\ OneSegment(lastEdit.order)
     /\ NonOverlapping(lastEdit.order)) =>
        LET path == lastEdit.order[1].path
        IN  TextAt(doc, path)
                = replaceIndependently(TextAt(lastEdit.before, path),
                                       {lastEdit.order[k] : k \in DOMAIN lastEdit.order}, 0)

\* C5 witness: a batch of two edits in one text node, one of them changing
\* the length of the text, has rewritten the document.
C5_Witness ==
    /\ lastEdit.kind = "all"
    /\ OneSegment(lastEdit.order)
    /\ NonOverlapping(lastEdit.order)
    /\ Len(lastEdit.order) >= 2
    /\ \E k \in DOMAIN lastEdit.order : ChangesLength(lastEdit.order[k])
    /\ doc /= lastEdit.before

\* The lists Tab chooses from.
Visible == suggestions \o povSuggestions

C7_StaleNeverWritten ==
    ~(/\ lastEdit.kind = "one"
      /\ lastEdit.prev = "one"
      /\ lastEdit.stale
      /\ lastEdit.freshPending)

\* C8: the visible lists are exactly the output of the pass that resolved
\* last, split by kind with the order kept; nothing of an earlier result is
\* left, also when that pass had started before one that resolved earlier.
C8_LastResolvedReplaces ==
    LET all == lastOutput.result
        isPov(s) == s.kind = "pov-pronoun-propagation"
        rank(j) == Cardinality({k \in 1..j : isPov(all[k]) = isPov(all[j])})
    IN  /\ Len(suggestions) + Len(povSuggestions) = Len(all)
        /\ \A j \in DOMAIN all :
               IF isPov(all[j])
               THEN rank(j) <= Len(povSuggestions) /\ povSuggestions[rank(j)] = all[j]
               ELSE rank(j) <= Len(suggestions) /\ suggestions[rank(j)] = all[j]

\* C8 witness: the pass that resolved last had been overtaken by a pass that
\* started after it, and its output, which differs from what was visible,
\* is what the lists show.
C8_Witness ==
    /\ lastOutput.overtaken
    /\ lastOutput.differs
    /\ suggestions /= <<>>
    /\ povSuggestions /= <<>>
    /\ passes = <<>>

\* C23: a skip (Shift+Tab with a suggestion at the cursor) puts the
\* collapsed cursor at the end of that suggestion's range and leaves the
\* document and both lists as they are; from a state in which the lookup
\* returns no suggestion, neither Tab nor Shift+Tab takes a step.
C23_SkipMovesCursorOnly ==
    [][LET s == getSuggestionAtCursor(selection, suggestions \o povSuggestions)
       IN  /\ ShiftTab =>
                  /\ s /= NoSuggestion
                  /\ selection' = Collapsed(Point(s.path, RangeEnd(s)))
                  /\ doc' = doc
                  /\ suggestions' = suggestions
                  /\ povSuggestions' = povSuggestions
           /\ s = NoSuggestion => ~Tab /\ ~ShiftTab]_vars

\* C23 witness: no edit has run, and the cursor stands at the end of a
\* visible suggestion, at an offset no click puts it at: a skip moved it
\* there.
C23_Witness ==
    /\ edits = 0
    /\ doc = initialValue
    /\ IsCollapsed(selection)
    /\ selection.anchor.offset \notin ClickOffsets
    /\ \E i \in DOMAIN Visible :
           /\ Visible[i].path = selection.anchor.path
           /\ RangeEnd(Visible[i]) = selection.anchor.offset

\* C25: a step in which a pass starts, goes on or returns outside an edit
\* handler (its start by the timer, the answer of the grammar service)
\* leaves the document and the selection as they are, and the document's
\* text changes only in a step of applySuggestion or applyAllPOVSuggestions.
C25_PassLeavesDocumentAlone ==
    [][/\ ((passes' /= passes \/ started' /= started) /\ edits' = edits)
              => (doc' = doc /\ selection' = selection)
       /\ doc' /= doc => (edits' = edits + 1 /\ lastEdit'.kind \in {"one", "all"})]_vars

\* C25 witness: a pass returned a non-empty list and the document and the
\* selection the pass was started on are still there.
C25_Witness ==
    /\ lastOutput.result /= <<>>
    /\ edits = 0
    /\ doc = initialValue
    /\ selection /= NoSelection
    /\ passes = <<>>

\* C26: at most one debounce timer is pending; a change of the text or of
\* the selection leaves exactly one pending, whether or not one was pending
\* before; and the timer's firing, which starts the pass, leaves none
\* pending, so a burst of changes starts one pass, after the last of them.
C26_OneSharedTimer ==
    /\ [](debounceRef \in {0, 1})
    /\ [][/\ (doc' /= doc \/ selection' /= selection) => debounceRef' = 1
          /\ debounceRef' < debounceRef =>
                 (debounceRef' = 0 /\ edits' = edits /\ started' <= started + 1)]_vars

\* C26 witness: after the first pass returned, the cursor went from offset
\* 0 to 3 and from 3 to 6 by two skips, each restarting the timer, and the
\* one pass started since runs on the cursor at 6.
C26_Witness ==
    /\ debounceRef = 0
    /\ started = 2
    /\ edits = 0
    /\ suggestions /= <<>>
    /\ Len(passes) = 1
    /\ passes[1].origin = "timer"
    /\ passes[1].pass.sel = Collapsed(Point(<<0, 0>>, 6))
    /\ selection = Collapsed(Point(<<0, 0>>, 6))

\* C29: loading is true exactly while an analysis pass is in flight.
C29_LoadingWhilePassInFlight == loading <=> (passes /= <<>>)

=============================================================================
